---- MODULE Spec2Model ----
(***************************************************************************)
(* Prompt-Engineering-Studio: the rule-based pattern matcher               *)
(* (pattern_detector.py), the LLM refinement bridge, the template          *)
(* recommender and the template merge engine (hub_service.py).             *)
(*                                                                         *)
(* Strings are TLA+ strings; Python's 0-based half-open slices s[a:b] are  *)
(* written Slice(s, a, b).  A confidence c of the program is modelled by   *)
(* the integer 100 * c (0.35 -> 35, 0.7 -> 70, 1.0 -> 100); a suggestion   *)
(* score x (a percentage rounded to 2 decimals) by the integer 100 * x.    *)
(***************************************************************************)
EXTENDS Integers, Sequences, FiniteSets, TLC

VARIABLES op, pc, req, resp, ext, TEMPLATE_CACHE, settings_lm, llm_calls

vars == <<op, pc, req, resp, ext, TEMPLATE_CACHE, settings_lm, llm_calls>>

\* dspy.settings.lm before any configure_llm
Unset == [kind |-> "unset", provider |-> "", model |-> "", api_key |-> ""]

----------------------------------------------------------------------------
(* Python str primitives                                                   *)

Max(a, b) == IF a >= b THEN a ELSE b

Min(a, b) == IF a <= b THEN a ELSE b

\* s[a:b] for 0 <= a, 0 <= b (Python clamps b to len(s))
Slice(s, a, b) == SubSeq(s, a + 1, Min(b, Len(s)))

\* s[i:i+len(t)] == t
StartsAt(s, t, i) == /\ i + Len(t) <= Len(s)
                     /\ SubSeq(s, i + 1, i + Len(t)) = t

SetMin(S) == CHOOSE x \in S : \A y \in S : x <= y

\* s.find(t, from): least index >= from where t occurs, -1 if none
Find(s, t, from) ==
  LET hits == {i : i \in {j \in from..(Len(s) - Len(t)) :
                             SubSeq(s, j + 1, j + Len(t)) = t}}
  IN IF hits = {} THEN -1 ELSE SetMin(hits)

\* t in s
Contains(s, t) == Find(s, t, 0) # -1

UpperToLower ==
  "A" :> "a" @@ "B" :> "b" @@ "C" :> "c" @@ "D" :> "d" @@ "E" :> "e" @@ "F" :> "f"
     @@ "G" :> "g" @@ "H" :> "h" @@ "I" :> "i" @@ "J" :> "j" @@ "K" :> "k" @@ "L" :> "l"
     @@ "M" :> "m" @@ "N" :> "n" @@ "O" :> "o" @@ "P" :> "p" @@ "Q" :> "q" @@ "R" :> "r"
     @@ "S" :> "s" @@ "T" :> "t" @@ "U" :> "u" @@ "V" :> "v" @@ "W" :> "w" @@ "X" :> "x"
     @@ "Y" :> "y" @@ "Z" :> "z"

LowerChar(c) == IF c \in DOMAIN UpperToLower THEN UpperToLower[c] ELSE c

RECURSIVE lower(_)
\* str.lower() on ASCII text
lower(s) == IF s = "" THEN "" ELSE LowerChar(SubSeq(s, 1, 1)) \o lower(Tail(s))

\* U+017F (LATIN SMALL LETTER LONG S), which a string of this module cannot
\* hold, is written with this character: str.lower() leaves it as it is and
\* a pattern compiled with re.IGNORECASE matches it where it has an "s"
LongS == "$"

RECURSIVE IgnoreCase(_)
\* the text in which a lower-case keyword matches, case-sensitively, exactly
\* where it matches s under re.IGNORECASE
IgnoreCase(s) ==
  IF s = "" THEN ""
  ELSE (IF SubSeq(s, 1, 1) = LongS THEN "s" ELSE LowerChar(SubSeq(s, 1, 1)))
         \o IgnoreCase(Tail(s))

Whitespace == {" ", "\n", "\t", "\r"}

RECURSIVE lstrip(_)
lstrip(s) == IF s # "" /\ SubSeq(s, 1, 1) \in Whitespace THEN lstrip(Tail(s)) ELSE s

RECURSIVE rstrip(_)
rstrip(s) ==
  IF s # "" /\ SubSeq(s, Len(s), Len(s)) \in Whitespace
  THEN rstrip(SubSeq(s, 1, Len(s) - 1)) ELSE s

\* str.strip()
strip(s) == rstrip(lstrip(s))

----------------------------------------------------------------------------
(* The regular expressions of the catalogue: literal segments joined by    *)
(* ".*" (the only metacharacters the keywords use; r"let\'s think" is the  *)
(* literal let's think).  "." does not match a newline, ".*" is greedy.    *)

RECURSIVE Segments(_)
\* the literal segments of a keyword, split at every ".*"
Segments(kw) ==
  LET i == Find(kw, ".*", 0)
  IN IF i = -1 THEN <<kw>>
     ELSE <<Slice(kw, 0, i)>> \o Segments(Slice(kw, i + 2, Len(kw)))

RECURSIVE LineEnd(_, _)
\* index of the first newline at or after p, len(s) if none
LineEnd(s, p) ==
  IF p >= Len(s) THEN Len(s)
  ELSE IF SubSeq(s, p + 1, p + 1) = "\n" THEN p
  ELSE LineEnd(s, p + 1)

RECURSIVE RestEnd(_, _, _), TryGap(_, _, _, _)
\* end of the match of ".*seg1.*seg2..." started at p, -1 if none:
\* each ".*" takes the longest gap for which the remainder still matches
RestEnd(segs, s, p) ==
  IF segs = <<>> THEN p ELSE TryGap(segs, s, p, LineEnd(s, p))

TryGap(segs, s, p, j) ==
  IF j < p THEN -1
  ELSE IF StartsAt(s, segs[1], j)
       THEN LET e == RestEnd(Tail(segs), s, j + Len(segs[1]))
            IN IF e # -1 THEN e ELSE TryGap(segs, s, p, j - 1)
       ELSE TryGap(segs, s, p, j - 1)

\* end of the match of the keyword anchored at i, -1 if none
MatchAt(segs, s, i) ==
  IF StartsAt(s, segs[1], i) THEN RestEnd(Tail(segs), s, i + Len(segs[1]))
  ELSE -1

\* for each character of s, the indices where it occurs
CharIndex(s) ==
  [c \in {SubSeq(s, i, i) : i \in 1..Len(s)} |->
     {i \in 0..(Len(s) - 1) : SubSeq(s, i + 1, i + 1) = c}]

RECURSIVE FindIterFrom(_, _, _, _)
\* the matches at or after pos: the leftmost one, then those after its end;
\* cand are the indices of s holding the keyword's first character
FindIterFrom(segs, s, cand, pos) ==
  LET starts == {i \in cand : i >= pos /\ MatchAt(segs, s, i) # -1}
  IN IF starts = {} THEN <<>>
     ELSE LET i == SetMin(starts)
              e == MatchAt(segs, s, i)
          IN <<[start |-> i, end |-> e]>> \o FindIterFrom(segs, s, cand, e)

\* re.finditer(kw, s) given idx = CharIndex(s): the non-overlapping matches,
\* left to right
finditer(kw, s, idx) ==
  LET segs == Segments(kw)
      c == SubSeq(segs[1], 1, 1)
  IN IF c \in DOMAIN idx THEN FindIterFrom(segs, s, idx[c], 0) ELSE <<>>

\* re.search(kw, s) is not None
search(kw, s) == finditer(kw, s, CharIndex(s)) # <<>>

----------------------------------------------------------------------------
(* Pattern catalogue: AdvancedPromptPatternDetector.__init__               *)

patterns ==
  <<
    [name |-> "zero_shot",
       keywords |-> <<>>,
       negative_keywords |-> <<"example", "for instance", "like this">>,
       description |-> "Direct task without examples",
       category |-> "Basic"],
    [name |-> "few_shot",
       keywords |-> <<"here are examples", "example:", "for instance",
        "like this:", "sample:", "input:.*output:">>,
       negative_keywords |-> <<>>,
       description |-> "Provides examples before the task",
       category |-> "Basic"],
    [name |-> "role_prompting",
       keywords |-> <<"you are a", "act as", "you are an",
        "assume the role">>,
       negative_keywords |-> <<>>,
       description |-> "Assigns a specific role or persona",
       category |-> "Basic"],
    [name |-> "chain_of_thought",
       keywords |-> <<"step by step", "think through", "reason about",
        "let's think", "work through", "explain your reasoning">>,
       negative_keywords |-> <<>>,
       description |-> "Encourages step-by-step reasoning (CoT)",
       category |-> "Reasoning"],
    [name |-> "self_consistency",
       keywords |-> <<"multiple.*reasoning", "different.*approaches", "various.*solutions",
        "compare.*answers">>,
       negative_keywords |-> <<>>,
       description |-> "Generates multiple reasoning paths",
       category |-> "Reasoning"],
    [name |-> "tree_of_thoughts",
       keywords |-> <<"explore.*options", "branch.*possibilities", "different paths",
        "evaluate.*alternatives">>,
       negative_keywords |-> <<>>,
       description |-> "Explores multiple reasoning branches (ToT)",
       category |-> "Reasoning"],
    [name |-> "generate_knowledge",
       keywords |-> <<"first.*generate.*knowledge", "what do you know about", "provide background",
        "recall.*information">>,
       negative_keywords |-> <<>>,
       description |-> "Generates relevant knowledge before answering",
       category |-> "Reasoning"],
    [name |-> "react",
       keywords |-> <<"thought:", "action:", "observation:",
        "reason.*then.*act", "plan.*execute">>,
       negative_keywords |-> <<>>,
       description |-> "Reasoning + Acting pattern (ReAct)",
       category |-> "Agent"],
    [name |-> "reflexion",
       keywords |-> <<"reflect on", "self-reflect", "evaluate your",
        "what went wrong", "how to improve", "self-assess",
        "analyze.*performance", "critique.*yourself", "improve.*reasoning",
        "better.*response", "self-critique", "critique your answer",
        "review and critique", "identify.*errors", "logical.*errors">>,
       negative_keywords |-> <<>>,
       description |-> "AI self-reflection: AI evaluates its own outputs and performance",
       category |-> "Agent"],
    [name |-> "automatic_reasoning",
       keywords |-> <<"use tools", "available functions", "call.*function",
        "external tools">>,
       negative_keywords |-> <<>>,
       description |-> "Automatic Reasoning and Tool-use (ART)",
       category |-> "Agent"],
    [name |-> "rag",
       keywords |-> <<"based on.*context", "using.*document", "retrieve",
        "search.*then.*answer", "given.*information">>,
       negative_keywords |-> <<>>,
       description |-> "Retrieval Augmented Generation (RAG)",
       category |-> "Retrieval"],
    [name |-> "active_prompt",
       keywords |-> <<"most uncertain", "need clarification", "ask questions",
        "what else.*need">>,
       negative_keywords |-> <<>>,
       description |-> "Actively seeks clarification",
       category |-> "Retrieval"],
    [name |-> "directional_stimulus",
       keywords |-> <<"focus on", "emphasize", "pay attention to",
        "highlight", "prioritize">>,
       negative_keywords |-> <<>>,
       description |-> "Guides attention to specific aspects",
       category |-> "Control"],
    [name |-> "constraint_setting",
       keywords |-> <<"must include", "do not", "avoid",
        "only", "ensure that", "specifically",
        "focus on", "focusing on">>,
       negative_keywords |-> <<>>,
       description |-> "Sets boundaries or requirements",
       category |-> "Control"],
    [name |-> "task_decomposition",
       keywords |-> <<"review and critique", "provide.*feedback", "offer.*suggestions",
        "break.*down", "step by step", "analyze.*then">>,
       negative_keywords |-> <<>>,
       description |-> "Breaks down complex tasks into specific components",
       category |-> "Control"],
    [name |-> "output_formatting",
       keywords |-> <<"format", "structure", "provide in",
        "output as", "json", "table",
        "list", "markdown">>,
       negative_keywords |-> <<>>,
       description |-> "Specifies desired output format",
       category |-> "Control"],
    [name |-> "meta_prompting",
       keywords |-> <<"improve.*prompt", "better.*question", "rewrite.*query",
        "optimize.*instruction">>,
       negative_keywords |-> <<>>,
       description |-> "Prompts about prompts",
       category |-> "Meta"],
    [name |-> "automatic_prompt_engineer",
       keywords |-> <<"generate.*prompt", "create.*instruction", "design.*template">>,
       negative_keywords |-> <<>>,
       description |-> "Automatic Prompt Engineering (APE)",
       category |-> "Meta"],
    [name |-> "multimodal_cot",
       keywords |-> <<"analyze.*image", "visual.*reasoning", "describe.*then",
        "based on.*picture">>,
       negative_keywords |-> <<>>,
       description |-> "Chain-of-Thought with multimodal inputs",
       category |-> "Multimodal"],
    [name |-> "task_specification",
       keywords |-> <<"generate", "create", "write",
        "analyze", "review", "explain",
        "summarize">>,
       negative_keywords |-> <<>>,
       description |-> "Clearly defines the task",
       category |-> "Basic"],
    [name |-> "iterative_refinement",
       keywords |-> <<"if.*feedback", "refine", "enhance",
        "iterate", "improve.*previous">>,
       negative_keywords |-> <<>>,
       description |-> "Includes feedback loop instructions",
       category |-> "Control"],
    [name |-> "persona_context",
       keywords |-> <<"known for", "expert in", "specialized",
        "with experience">>,
       negative_keywords |-> <<>>,
       description |-> "Adds context or credentials to the role",
       category |-> "Basic"],
    [name |-> "goal_oriented",
       keywords |-> <<"goal", "objective", "aim",
        "purpose", "for maximum", "to ensure">>,
       negative_keywords |-> <<>>,
       description |-> "Defines success criteria",
       category |-> "Control"],
    [name |-> "audience_awareness",
       keywords |-> <<"audience", "reader", "for.*users",
        "target">>,
       negative_keywords |-> <<>>,
       description |-> "Considers the end audience",
       category |-> "Control"],
    [name |-> "peer_review",
       keywords |-> <<"review.*tweet", "critique.*content", "feedback.*post",
        "analyze.*writing", "evaluate.*message", "assess.*communication",
        "content.*review", "writing.*feedback", "social.*media.*analysis",
        "provide.*feedback", "constructive.*criticism", "review and critique",
        "provide constructive feedback", "offer specific suggestions", "make.*compelling",
        "enhancing.*depth", "overall.*impact">>,
       negative_keywords |-> <<>>,
       description |-> "Content critique: AI analyzes and evaluates external content",
       category |-> "Analysis"]
  >>

\* self.patterns[name]
\* the values of a sequence
Range(f) == {f[i] : i \in DOMAIN f}

Info(name) == CHOOSE p \in Range(patterns) : p.name = name

PatternNames == {p.name : p \in Range(patterns)}

----------------------------------------------------------------------------
(* Pattern Matcher: AdvancedPromptPatternDetector.detect_patterns          *)

\* confidence += 0.35 per match
Increment == 35

\* min(confidence, 1.0)
Cap == 100

\* the fixed confidence of the zero_shot sentinel
ZeroShotConfidence == 70

\* characters of context kept on each side of a match
Window == 30

\* evidence=matches[:3]
EvidenceMax == 3

PatternMatch(pattern, confidence, evidence, description, category) ==
  [pattern |-> pattern, confidence |-> confidence, evidence |-> evidence,
   description |-> description, category |-> category]

\* one item of a Dict[str, PatternMatch], in insertion order
Item(key, value) == [key |-> key, value |-> value]

RECURSIVE AllMatches(_, _, _)
\* every match of every keyword, keyword by keyword
AllMatches(keywords, s, idx) ==
  IF keywords = <<>> THEN <<>>
  ELSE finditer(Head(keywords), s, idx) \o AllMatches(Tail(keywords), s, idx)

\* f"...{prompt[start:end].strip()}..."
Evidence(prompt, m) ==
  LET start == Max(0, m.start - Window)
      end   == Min(Len(prompt), m.end + Window)
  IN "..." \o strip(Slice(prompt, start, end)) \o "..."

\* Confidence without the clamp
ConfidenceUnclamped(n) == n * Increment

\* the confidence after n additions of the increment, clamped
Confidence(n) == Min(n * Increment, Cap)

\* is_few_shot that also scans the sentinel's own negative keywords
is_few_shot_negative(prompt_lower) ==
  \/ \E i \in DOMAIN Info("few_shot").keywords :
        search(Info("few_shot").keywords[i], prompt_lower)
  \/ \E i \in DOMAIN Info("zero_shot").negative_keywords :
        search(Info("zero_shot").negative_keywords[i], prompt_lower)

\* is_few_shot with the test inverted
is_few_shot_inverted(prompt_lower) ==
  ~ \E i \in DOMAIN Info("few_shot").keywords :
       search(Info("few_shot").keywords[i], prompt_lower)

\* any(re.search(kw, prompt_lower) for kw in self.patterns['few_shot']['keywords'])
is_few_shot(prompt_lower) ==
  \E i \in DOMAIN Info("few_shot").keywords :
     search(Info("few_shot").keywords[i], prompt_lower)

\* the items one catalogue entry contributes to detected: none or one;
\* folded is IgnoreCase(prompt_lower), in which re.finditer(keyword,
\* prompt_lower, re.IGNORECASE) finds its matches, and idx its CharIndex
DetectOne(info, prompt, prompt_lower, folded, idx) ==
  IF info.name = "zero_shot"
  THEN IF ~ is_few_shot(prompt_lower)
       THEN <<Item(info.name,
                   PatternMatch(info.name, ZeroShotConfidence,
                     <<"No clear examples found, suggesting a zero-shot approach.">>,
                     info.description, info.category))>>
       ELSE <<>>
  ELSE LET hits == AllMatches(info.keywords, folded, idx)
           matches == [i \in DOMAIN hits |-> Evidence(prompt, hits[i])]
       IN IF hits # <<>>
          THEN <<Item(info.name,
                      PatternMatch(info.name, Confidence(Len(hits)),
                        SubSeq(matches, 1, Min(EvidenceMax, Len(matches))),
                        info.description, info.category))>>
          ELSE <<>>

RECURSIVE DetectFrom(_, _, _, _, _)
\* for pattern_name, pattern_info in self.patterns.items()
DetectFrom(i, prompt, prompt_lower, folded, idx) ==
  IF i > Len(patterns) THEN <<>>
  ELSE DetectOne(patterns[i], prompt, prompt_lower, folded, idx)
         \o DetectFrom(i + 1, prompt, prompt_lower, folded, idx)

\* detect_patterns once prompt.lower() is known
DetectLowered(prompt, prompt_lower, folded) ==
  DetectFrom(1, prompt, prompt_lower, folded, CharIndex(folded))

detect_patterns(prompt) ==
  DetectLowered(prompt, lower(prompt), IgnoreCase(lower(prompt)))

\* dict lookups on a sequence of items
Keys(d) == {d[i].key : i \in DOMAIN d}

Get(d, k) == d[CHOOSE i \in DOMAIN d : d[i].key = k].value

----------------------------------------------------------------------------
(* Inputs                                                                  *)

\* prompts are concatenations of at most MaxPhrases phrases
MaxPhrases == 2

Phrases ==
  <<"You are an expert. ",
    "Think step by step.\n",
    "Example: ",
    "an example ",
    "input: x ",
    "output: y\n",
    "Retrieve the format. ",
    "for in$tance ">>

RECURSIVE Join(_)
Join(ps) == IF ps = <<>> THEN "" ELSE Head(ps) \o Join(Tail(ps))

Prompts ==
  {Join([i \in DOMAIN f |-> Phrases[f[i]]]) :
     f \in UNION {[1..n -> DOMAIN Phrases] : n \in 0..MaxPhrases}}

----------------------------------------------------------------------------
(* State machine: a request is in req from the start (pc = "called"); the  *)
(* operation named by op answers it in resp (pc = "returned") and may be   *)
(* called again with the same request.                                     *)

\* a call of detect_patterns(prompt)
DetectPatterns ==
  /\ op = "detect"
  /\ pc' = "returned"
  /\ resp' = [kind |-> "return", value |-> detect_patterns(req.prompt)]
  /\ UNCHANGED <<op, req, ext, TEMPLATE_CACHE, settings_lm, llm_calls>>

InitDetect ==
  /\ op = "detect"
  /\ pc = "called"
  /\ req \in {[prompt |-> p] : p \in Prompts}
  /\ resp = [kind |-> "none"]
  /\ TEMPLATE_CACHE = <<>>
  /\ ext = [kind |-> "none"]
  /\ settings_lm = Unset
  /\ llm_calls = 0

NextDetect == DetectPatterns

SpecDetect == InitDetect /\ [][NextDetect]_vars

----------------------------------------------------------------------------
(* Template Recommender: HubService.get_suggestions                        *)

\* PATTERN_TO_HUB_MAP, in dict order
\* an affinity map in which the sentinel has an entry as well
PATTERN_TO_HUB_MAP_with_zero_shot ==
  <<[pattern |-> "rag",
     slugs |-> <<"rlm/rag-prompt", "langchain-ai/retrieval-qa-chat">>],
    [pattern |-> "zero_shot",
     slugs |-> <<"chain_of_thought">>]>>

PATTERN_TO_HUB_MAP ==
  <<[pattern |-> "rag",
     slugs |-> <<"rlm/rag-prompt", "langchain-ai/retrieval-qa-chat">>],
    [pattern |-> "react",
     slugs |-> <<"hwchase17/react-chat", "hwchase17/react-json">>],
    [pattern |-> "chain_of_thought",
     slugs |-> <<"rlm/rag-prompt-cot", "chain_of_thought">>],
    [pattern |-> "role_prompting",
     slugs |-> <<"hwchase17/react-chat", "rlm/rag-prompt">>]>>

\* pattern_name in PATTERN_TO_HUB_MAP
Mapped(pattern_name) ==
  \E i \in DOMAIN PATTERN_TO_HUB_MAP : PATTERN_TO_HUB_MAP[i].pattern = pattern_name

\* PATTERN_TO_HUB_MAP[pattern_name], as a set
SlugsOf(pattern_name) ==
  UNION {Range(PATTERN_TO_HUB_MAP[i].slugs) :
           i \in {j \in DOMAIN PATTERN_TO_HUB_MAP :
                    PATTERN_TO_HUB_MAP[j].pattern = pattern_name}}

\* the set built by the loop over detected_patterns.keys()
suggested_slugs(detected_patterns) ==
  UNION {SlugsOf(k) : k \in {x \in Keys(detected_patterns) : Mapped(x)}}

RECURSIVE SumConfidence(_)
\* sum(p.confidence for p in items)
SumConfidence(items) ==
  IF items = <<>> THEN 0
  ELSE Head(items).value.confidence + SumConfidence(Tail(items))

\* total_confidence restricted to the patterns that have an affinity entry
total_confidence_mapped_only(detected_patterns) ==
  SumConfidence(SelectSeq(detected_patterns, LAMBDA it : Mapped(it.key)))

\* sum(p.confidence for p in detected_patterns.values())
total_confidence(detected_patterns) == SumConfidence(detected_patterns)

\* the guard that is never taken
IsZeroNever(total) == FALSE

\* total_confidence == 0
IsZero(total) == total = 0

\* {p_name for p_name, s_list in PATTERN_TO_HUB_MAP.items() if slug in s_list}
matched_pattern_names(slug) ==
  {PATTERN_TO_HUB_MAP[i].pattern :
     i \in {j \in DOMAIN PATTERN_TO_HUB_MAP : slug \in Range(PATTERN_TO_HUB_MAP[j].slugs)}}

\* sum(p.confidence for name, p in detected_patterns.items()
\*     if name in matched_pattern_names)
matched_confidence(detected_patterns, slug) ==
  SumConfidence(SelectSeq(detected_patterns,
                          LAMBDA it : it.key \in matched_pattern_names(slug)))

\* the integer nearest to num / den (den > 0), halves to the even neighbour
RoundHalfEven(num, den) ==
  LET q == num \div den
      r == num % den
  IN IF 2 * r < den THEN q
     ELSE IF 2 * r > den THEN q + 1
     ELSE IF q % 2 = 0 THEN q ELSE q + 1

\* round((matched_confidence / total_confidence) * 100, 2), in hundredths
Score(matched, total) ==
  IF total > 0 THEN RoundHalfEven(matched * 10000, total)
  ELSE RoundHalfEven((0 - matched) * 10000, 0 - total)

RECURSIVE InsertAscending(_, _)
InsertAscending(x, sorted) ==
  IF sorted = <<>> THEN <<x>>
  ELSE IF Head(sorted).score > x.score
       THEN <<x>> \o sorted
       ELSE <<Head(sorted)>> \o InsertAscending(x, Tail(sorted))

RECURSIVE SortAscending(_)
\* list.sort(key=score) without reverse=True
SortAscending(xs) ==
  IF xs = <<>> THEN <<>>
  ELSE InsertAscending(xs[Len(xs)], SortAscending(SubSeq(xs, 1, Len(xs) - 1)))

RECURSIVE InsertDescending(_, _)
\* x goes after every element already placed whose score is >= its own
InsertDescending(x, sorted) ==
  IF sorted = <<>> THEN <<x>>
  ELSE IF Head(sorted).score < x.score
       THEN <<x>> \o sorted
       ELSE <<Head(sorted)>> \o InsertDescending(x, Tail(sorted))

RECURSIVE SortDescending(_)
\* list.sort(key=score, reverse=True): stable, equal scores keep their order
SortDescending(xs) ==
  IF xs = <<>> THEN <<>>
  ELSE InsertDescending(xs[Len(xs)], SortDescending(SubSeq(xs, 1, Len(xs) - 1)))

\* the orders in which `for slug in suggested_slugs` may visit a set: the
\* iteration order of a set of str is unspecified (it depends on the hash
\* seed of the process and on the insertion history)
IterationOrders(S) ==
  {f \in [1..Cardinality(S) -> S] : \A i, j \in DOMAIN f : f[i] = f[j] => i = j}

\* get_suggestions(detected_patterns) when the set is visited in `order`
get_suggestions(detected_patterns, order) ==
  IF detected_patterns = <<>> THEN [kind |-> "return", value |-> <<>>]
  ELSE LET total == total_confidence(detected_patterns)
       IN IF IsZero(total) THEN [kind |-> "return", value |-> <<>>]
          ELSE IF total = 0 /\ order # <<>>
               THEN [kind |-> "raise", exc |-> "ZeroDivisionError"]
               ELSE [kind |-> "return",
                     value |-> SortDescending(
                       [i \in DOMAIN order |->
                          [name |-> order[i],
                           score |-> Score(matched_confidence(detected_patterns, order[i]),
                                           total)]])]

\* the keys a request may carry: patterns with overlapping and with disjoint
\* affinity entries, and one with no entry
RequestKeys == <<"role_prompting", "rag", "chain_of_thought", "zero_shot">>

\* the confidences a request may carry
RequestConfidences == {0, 35, 70, 100}

\* at most MaxPatterns patterns in a request
MaxPatterns == 3

\* a PatternMatch of a request: the catalogue's texts, no evidence
RequestItem(key, confidence) ==
  Item(key, PatternMatch(key, confidence, <<>>,
                         Info(key).description, Info(key).category))

\* the DetectionResults of the requests: a confidence for each key of a
\* subset of RequestKeys (absent where c[i] = -1), at most MaxPatterns keys
DetectionResults ==
  {SelectSeq([i \in DOMAIN RequestKeys |-> RequestItem(RequestKeys[i], c[i])],
             LAMBDA it : it.value.confidence # -1) :
     c \in {f \in [DOMAIN RequestKeys -> RequestConfidences \cup {-1}] :
              Cardinality({i \in DOMAIN f : f[i] # -1}) <= MaxPatterns}}

\* a call of get_suggestions(req.patterns); it may be repeated
GetSuggestions ==
  /\ op = "suggest"
  /\ \E order \in IterationOrders(suggested_slugs(req.patterns)) :
       resp' = get_suggestions(req.patterns, order)
  /\ pc' = "returned"
  /\ UNCHANGED <<op, req, ext, TEMPLATE_CACHE, settings_lm, llm_calls>>

InitSuggest ==
  /\ op = "suggest"
  /\ pc = "called"
  /\ req \in {[patterns |-> d] : d \in DetectionResults}
  /\ resp = [kind |-> "none"]
  /\ TEMPLATE_CACHE = <<>>
  /\ ext = [kind |-> "none"]
  /\ settings_lm = Unset
  /\ llm_calls = 0

NextSuggest == GetSuggestions

SpecSuggest == InitSuggest /\ [][NextSuggest]_vars

----------------------------------------------------------------------------
(* Exceptions, results and the external LLM collaborator                   *)

\* an exception: its class, and which of the words "context", "OpenAI",
\* "Predict" its message holds ("" when none)
Exc(type, text) == [type |-> type, text |-> text]

NoExc == Exc("", "")

\* the outcome of a call: a returned value or a raised exception
Return(v) == [kind |-> "return", value |-> v, exc |-> NoExc]

Raise(e) == [kind |-> "raise", value |-> <<>>, exc |-> e]

\* isinstance(e, cls) for the classes the handlers name; json.JSONDecodeError
\* and pydantic's ValidationError derive from ValueError
IsA(e, cls) ==
  \/ cls = "Exception"
  \/ e.type = cls
  \/ cls = "ValueError" /\ e.type \in {"JSONDecodeError", "ValidationError"}

\* what the dspy library and the provider behind it can raise
TransportErrors ==
  {Exc("TimeoutError", ""), Exc("ConnectionError", ""),
   Exc("TypeError", ""), Exc("TypeError", "context"),
   Exc("AttributeError", ""), Exc("AttributeError", "Predict")}

\* what constructing the client object can raise (dspy.OpenAI is missing
\* from recent dspy releases, dspy.LM from old ones)
ConstructErrors == {Exc("AttributeError", "OpenAI"), Exc("AttributeError", "")}

\* a configuration that builds the client of a hosted provider whether or
\* not a key was given
configure_llm_without_key_check(provider, model, api_key, construct, settings) ==
  IF provider \in {"ollama", "openrouter", "groq"}
  THEN IF construct.kind = "raise"
       THEN [result |-> Raise(construct.exc), settings |-> settings]
       ELSE [result |-> Return(<<>>),
             settings |-> [kind |-> "lm", provider |-> provider, model |-> model,
                           api_key |-> IF provider = "ollama" THEN "" ELSE api_key]]
  ELSE [result |-> Raise(Exc("ValueError", "")), settings |-> settings]

\* DspyService.configure_llm: the outcome (the method returns None) and the
\* value dspy.settings.lm holds afterwards; construct is the outcome of
\* building the client object
configure_llm(provider, model, api_key, construct, settings) ==
  LET lm(key) == [kind |-> "lm", provider |-> provider, model |-> model, api_key |-> key]
      built(key) == IF construct.kind = "raise"
                    THEN [result |-> Raise(construct.exc), settings |-> settings]
                    ELSE [result |-> Return(<<>>), settings |-> lm(key)]
  IN IF provider = "ollama" THEN built("")
     ELSE IF provider \in {"openrouter", "groq"}
          THEN IF api_key = ""
               THEN [result |-> Raise(Exc("ValueError", "")), settings |-> settings]
               ELSE built(api_key)
          ELSE [result |-> Raise(Exc("ValueError", "")), settings |-> settings]

----------------------------------------------------------------------------
(* Refinement Bridge: refine_patterns_with_llm and                         *)
(* _parse_llm_refinement_response                                          *)
(*                                                                         *)
(* The text of an LLM answer is modelled by its structure: the marker it   *)
(* starts with ("fence_json" for three backquotes followed by json,        *)
(* "fence_plain" for three backquotes alone, "none"), the document between *)
(* the markers, and the marker it ends with ("fence" or "none").           *)

Text(lead, doc, trail) == [kind |-> "str", lead |-> lead, doc |-> doc, trail |-> trail]

\* the value None where a str is expected
NoneText == [kind |-> "none", lead |-> "none", doc |-> [kind |-> "garbage"], trail |-> "none"]

\* strip, cut a leading fence-with-json (7 characters), cut a trailing fence
\* (3 characters), strip
Cleaned(llm_response) ==
  [llm_response EXCEPT
     !.lead = IF llm_response.lead = "fence_json" THEN "none" ELSE @,
     !.trail = IF llm_response.trail = "fence" THEN "none" ELSE @]

\* json.loads(cleaned_response)
json_loads(cleaned) ==
  IF cleaned.lead # "none" \/ cleaned.trail # "none" \/ cleaned.doc.kind = "garbage"
  THEN Raise(Exc("JSONDecodeError", ""))
  ELSE Return(cleaned.doc)

\* pattern_data.get(key, default) on a decoded object
DictGet(field, default) == IF field.kind = "missing" THEN default ELSE field.value

\* the PatternMatch of an entry whose fields pass validation; info is the
\* catalogue entry of the name
Converted(pattern_name, pattern_data, info) ==
  PatternMatch(pattern_name,
               DictGet(pattern_data.confidence, 0),
               DictGet(pattern_data.evidence, <<>>),
               DictGet(pattern_data.description, info.description),
               DictGet(pattern_data.category, info.category))

\* PatternMatch(pattern=..., confidence=float(...), evidence=..., ...) for
\* one entry of the decoded "patterns" object
ToPatternMatch(pattern_name, pattern_data) ==
  IF pattern_data.kind # "object"
  THEN Raise(Exc("AttributeError", ""))            \* pattern_data.get
  ELSE IF pattern_data.confidence.kind = "text"
       THEN Raise(Exc("ValueError", ""))           \* float("high")
  ELSE IF pattern_data.confidence.kind = "null"
       THEN Raise(Exc("TypeError", ""))            \* float(None)
  ELSE IF pattern_data.evidence.kind = "bad"
       THEN Raise(Exc("ValidationError", ""))      \* evidence: List[str]
  ELSE Return(Converted(pattern_name, pattern_data, Info(pattern_name)))

\* d[key] = value on a dict kept as items in insertion order
SetItem(d, key, value) ==
  IF key \in Keys(d)
  THEN [i \in DOMAIN d |-> IF d[i].key = key THEN Item(key, value) ELSE d[i]]
  ELSE Append(d, Item(key, value))

\* pattern_name in self.patterns
IsKnown(pattern_name) == pattern_name \in PatternNames

RECURSIVE ConvertEntriesSkipBad(_, _)
RECURSIVE ConvertEntries(_, _)

\* one turn of the loop for an entry with a known name: the exception of the
\* conversion ends the loop, its value is stored under the name
Turn(entries, refined_patterns, pm) ==
  IF pm.kind = "raise" THEN pm
  ELSE ConvertEntries(Tail(entries),
                      SetItem(refined_patterns, Head(entries).name, pm.value))

\* ConvertEntries that drops an entry it cannot convert and carries on
ConvertEntriesSkipBad(entries, refined_patterns) ==
  IF entries = <<>> THEN Return(refined_patterns)
  ELSE IF ~ IsKnown(Head(entries).name)
       THEN ConvertEntriesSkipBad(Tail(entries), refined_patterns)
       ELSE LET pm == ToPatternMatch(Head(entries).name, Head(entries).data)
            IN IF pm.kind = "raise"
               THEN ConvertEntriesSkipBad(Tail(entries), refined_patterns)
               ELSE ConvertEntriesSkipBad(Tail(entries),
                      SetItem(refined_patterns, Head(entries).name, pm.value))

RECURSIVE ConvertEntriesRejectUnknown(_, _)
\* ConvertEntries that looks every name up in the catalogue: a name that is
\* not there ends the loop with KeyError
ConvertEntriesRejectUnknown(entries, refined_patterns) ==
  IF entries = <<>> THEN Return(refined_patterns)
  ELSE IF ~ IsKnown(Head(entries).name) THEN Raise(Exc("KeyError", ""))
       ELSE LET pm == ToPatternMatch(Head(entries).name, Head(entries).data)
            IN IF pm.kind = "raise" THEN pm
               ELSE ConvertEntriesRejectUnknown(Tail(entries),
                      SetItem(refined_patterns, Head(entries).name, pm.value))

\* the loop over parsed.get("patterns", {}).items(): the refined dict, or
\* the exception that ends the loop
ConvertEntries(entries, refined_patterns) ==
  IF entries = <<>> THEN Return(refined_patterns)
  ELSE IF ~ IsKnown(Head(entries).name)
       THEN ConvertEntries(Tail(entries), refined_patterns)
       ELSE Turn(entries, refined_patterns,
                 ToPatternMatch(Head(entries).name, Head(entries).data))

\* return refined_patterns if refined_patterns else fallback_patterns
RefinedOrFallback(refined, fallback_patterns) ==
  IF refined.kind = "raise" THEN refined
  ELSE IF refined.value # <<>> THEN refined
       ELSE Return(fallback_patterns)

\* the statements after json.loads; parsed is its outcome
AfterLoads(parsed, fallback_patterns) ==
  IF parsed.kind = "raise" THEN parsed
  ELSE IF parsed.value.kind # "object"
       THEN Raise(Exc("AttributeError", ""))     \* parsed.get
  ELSE IF parsed.value.patterns.kind = "missing"
       THEN Return(fallback_patterns)            \* {} is empty
  ELSE IF parsed.value.patterns.kind # "object"
       THEN Raise(Exc("AttributeError", ""))     \* .items()
  ELSE RefinedOrFallback(ConvertEntries(parsed.value.patterns.entries, <<>>),
                         fallback_patterns)

\* the body of the try block of _parse_llm_refinement_response
ParseBody(llm_response, fallback_patterns) ==
  IF llm_response.kind = "none"
  THEN Raise(Exc("AttributeError", ""))            \* None.strip()
  ELSE AfterLoads(json_loads(Cleaned(llm_response)), fallback_patterns)

\* except (json.JSONDecodeError, KeyError, ValueError)
ParseCatches(e) ==
  IsA(e, "JSONDecodeError") \/ IsA(e, "KeyError") \/ IsA(e, "ValueError")

\* the handler of _parse_llm_refinement_response applied to the outcome r of
\* its try block
ParseHandled(r, fallback_patterns) ==
  IF r.kind = "raise" /\ ParseCatches(r.exc) THEN Return(fallback_patterns) ELSE r

_parse_llm_refinement_response(llm_response, fallback_patterns) ==
  ParseHandled(ParseBody(llm_response, fallback_patterns), fallback_patterns)

\* a handler for ValueError only
OuterCatchesValueError(e) == IsA(e, "ValueError")

\* except Exception (line 459)
OuterCatches(e) == IsA(e, "Exception")

\* the handlers an exception raised inside the inner try block (line 434)
\* passes through: the compatibility handler, then the outer handler
Handle(e, detected_patterns) ==
  IF (IsA(e, "AttributeError") \/ IsA(e, "TypeError")) /\ e.text # ""
  THEN Return(detected_patterns)
  ELSE IF OuterCatches(e) THEN Return(detected_patterns) ELSE Raise(e)

\* response.refined_json (first attempt) and
\* getattr(response, 'refined_json', str(response)) (second attempt)
RefinedJson(response, attempt) ==
  IF response.has_field THEN Return(response.refined_json)
  ELSE IF attempt = 1 THEN Raise(Exc("AttributeError", "Predict"))
       ELSE Return(Text("none", [kind |-> "garbage"], "none"))

\* a single attempt: the innermost handler requests no second completion
SecondAttemptNever(x) == FALSE

\* the innermost handler (except AttributeError, line 441) runs: the first
\* completion raised AttributeError, or its answer has no refined_json
SecondAttempt(x) ==
  \/ x.call1.kind = "raise" /\ IsA(x.call1.exc, "AttributeError")
  \/ x.call1.kind = "return" /\ RefinedJson(x.call1.value, 1).kind = "raise"

\* the text read from the outcome of a completion, or what was raised
ReadAnswer(call, attempt) ==
  IF call.kind = "raise" THEN call ELSE RefinedJson(call.value, attempt)

\* llm_response after the innermost try statement, or what it raised
LlmResponse(x) ==
  IF SecondAttempt(x) THEN ReadAnswer(x.call2, 2) ELSE ReadAnswer(x.call1, 1)

\* the statement after the innermost try statement (line 448)
Parsed(llm_response, detected_patterns) ==
  IF llm_response.kind = "raise" THEN llm_response
  ELSE _parse_llm_refinement_response(llm_response.value, detected_patterns)

\* the outcome of a block after the handlers around it
Handled(r, detected_patterns) ==
  IF r.kind = "raise" THEN Handle(r.exc, detected_patterns) ELSE r

\* the body of the outer try block once the provider is configured
Configured(detected_patterns, x) ==
  IF x.context.kind = "raise"
  THEN [result |-> x.context, calls |-> 0]
  ELSE [result |-> Parsed(LlmResponse(x), detected_patterns),
        calls |-> IF SecondAttempt(x) THEN 2 ELSE 1]

\* the outcome of the outer try block given the outcome cfg of configure_llm
AfterConfigure(cfg, detected_patterns, x) ==
  IF cfg.result.kind = "raise"
  THEN [result |-> IF OuterCatches(cfg.result.exc) THEN Return(detected_patterns)
                   ELSE cfg.result,
        settings |-> cfg.settings, calls |-> 0]
  ELSE [result |-> Handled(Configured(detected_patterns, x).result, detected_patterns),
        settings |-> cfg.settings,
        calls |-> Configured(detected_patterns, x).calls]

\* refine_patterns_with_llm: the outcome, dspy.settings.lm afterwards and the
\* number of completions requested.  x holds what the collaborator does:
\* construct, context, call1 and call2 are outcomes
refine_patterns_with_llm(detected_patterns, provider, model, api_key, x, settings) ==
  AfterConfigure(configure_llm(provider, model, api_key, x.construct, settings),
                 detected_patterns, x)

\* the names an answer may use: two of the catalogue, one invented
EntryNames == {"rag", "zero_shot", "made_up"}

Field(kind, value) == [kind |-> kind, value |-> value]

PatternData(kind, confidence, evidence, description, category) ==
  [kind |-> kind, confidence |-> confidence, evidence |-> evidence,
   description |-> description, category |-> category]

\* a complete entry
GoodData ==
  PatternData("object", Field("number", 80), Field("list", <<"quoted text">>),
              Field("given", "as the model put it"), Field("given", "Retrieval"))

\* an entry with no field at all: every default applies
BareData ==
  PatternData("object", Field("missing", 0), Field("missing", <<>>),
              Field("missing", ""), Field("missing", ""))

\* the entries an answer may hold: well-formed ones, a non-object, a
\* confidence that is a word or null, an evidence that is not a list of str
DataPool ==
  {GoodData, BareData,
   [GoodData EXCEPT !.kind = "scalar"],
   [GoodData EXCEPT !.confidence = Field("text", 0)],
   [GoodData EXCEPT !.confidence = Field("null", 0)],
   [GoodData EXCEPT !.evidence = Field("bad", <<>>)]}

\* at most MaxEntries entries under "patterns"
MaxEntries == 2

\* the entry lists: distinct names, any data
EntryLists ==
  UNION {{e \in [1..n -> [name : EntryNames, data : DataPool]] :
            \A i, j \in 1..n : e[i].name = e[j].name => i = j} : n \in 0..MaxEntries}

Doc(kind, p) == [kind |-> kind, patterns |-> p]

\* the documents: not JSON at all, JSON that is not an object, an object
\* without "patterns", with a "patterns" that is not an object, with entries
Docs ==
  {Doc("garbage", [kind |-> "missing", entries |-> <<>>]),
   Doc("scalar", [kind |-> "missing", entries |-> <<>>]),
   Doc("object", [kind |-> "missing", entries |-> <<>>]),
   Doc("object", [kind |-> "scalar", entries |-> <<>>])}
  \cup {Doc("object", [kind |-> "object", entries |-> e]) : e \in EntryLists}

\* the documents that are also sent wrapped in markers
FencedDocs ==
  {Doc("garbage", [kind |-> "missing", entries |-> <<>>]),
   Doc("object", [kind |-> "object",
                  entries |-> <<[name |-> "rag", data |-> GoodData]>>])}

\* the answers: every document bare, some of them with each combination of
\* leading and trailing marker, and None
Texts ==
  {Text("none", doc, "none") : doc \in Docs}
  \cup {Text(lead, doc, trail) :
          lead \in {"none", "fence_json", "fence_plain"}, doc \in FencedDocs,
          trail \in {"none", "fence"}}
  \cup {NoneText}

\* the Prediction objects: with the output field or without it
Responses ==
  {[has_field |-> TRUE, refined_json |-> t] : t \in Texts}
  \cup {[has_field |-> FALSE, refined_json |-> NoneText]}

Idle == Return(<<>>)

Ext(construct, context, call1, call2) ==
  [kind |-> "refine", construct |-> construct, context |-> context,
   call1 |-> call1, call2 |-> call2]

\* what the collaborator may do during one refine request; an outcome that
\* is never reached is left at Idle
RefineExts ==
  {Ext(Raise(e), Idle, Idle, Idle) : e \in ConstructErrors}
  \cup {Ext(Idle, Raise(e), Idle, Idle) : e \in TransportErrors}
  \cup {Ext(Idle, Idle, Raise(e), Idle) :
          e \in {x \in TransportErrors : x.type # "AttributeError"}}
  \cup {Ext(Idle, Idle, Return(r), Idle) : r \in {x \in Responses : x.has_field}}
  \cup {Ext(Idle, Idle, c1, c2) :
          c1 \in {Raise(e) : e \in {x \in TransportErrors : x.type = "AttributeError"}}
                  \cup {Return(r) : r \in {x \in Responses : ~ x.has_field}},
          c2 \in {Raise(e) : e \in TransportErrors} \cup {Return(r) : r \in Responses}}

\* the prompts refined: one without and one with example language
RefinePrompts == {"You are an expert. ", "Example: Retrieve the format. "}

\* provider and key of a request: the local provider, a hosted one without
\* and with a key, a provider that is not supported
RefineConfigs ==
  {<<"ollama", "">>, <<"openrouter", "">>, <<"groq", "sk-1">>, <<"azure", "sk-1">>}

\* a call of refine_patterns_with_llm on the matcher's result for the prompt
RefinePatternsWithLlm ==
  /\ op = "refine"
  /\ pc = "called"
  /\ \E e \in RefineExts :
       \E r \in {refine_patterns_with_llm(req.detected_patterns, req.provider,
                                          req.model, req.api_key, e, settings_lm)} :
          /\ resp' = r.result
          /\ settings_lm' = r.settings
          /\ llm_calls' = r.calls
          /\ ext' = e
  /\ pc' = "returned"
  /\ UNCHANGED <<op, req, TEMPLATE_CACHE>>

InitRefine ==
  /\ op = "refine"
  /\ pc = "called"
  /\ req \in {[original_prompt |-> p, detected_patterns |-> detect_patterns(p),
               provider |-> c[1], model |-> "gemma:2b", api_key |-> c[2]] :
                p \in RefinePrompts, c \in RefineConfigs}
  /\ resp = [kind |-> "none"]
  /\ ext = [kind |-> "none"]
  /\ TEMPLATE_CACHE = <<>>
  /\ settings_lm = Unset
  /\ llm_calls = 0

NextRefine == RefinePatternsWithLlm

SpecRefine == InitRefine /\ [][NextRefine]_vars

----------------------------------------------------------------------------
(* Template Catalog: LOCAL_TEMPLATES, TEMPLATE_CACHE,                      *)
(* HubService.get_template_content and get_template_with_metadata          *)
(*                                                                         *)
(* An argument that the caller may pass as a str or as None is a record:   *)
(* Str(s) or NoneValue.  TEMPLATE_CACHE is a dict kept as items in         *)
(* insertion order; its keys are the slugs as passed.                      *)

LOCAL_TEMPLATES ==
  <<
    Item("hwchase17/react-chat",
           "Thought: {thought}\n"
           \o "Action: {action}\n"
           \o "Observation: {observation}\n"
           \o "\n"
           \o "... (repeat until task is solved)\n"
           \o "\n"
           \o "Final Answer: {final_answer}"),
    Item("rlm/rag-prompt",
           "Use the following pieces of context to answer the question at the end.\n"
           \o "\n"
           \o "Context:\n"
           \o "{context}\n"
           \o "\n"
           \o "Question: {question}\n"
           \o "\n"
           \o "Helpful Answer:"),
    Item("hwchase17/react-json",
           "Thought: {thought}\n"
           \o "Action: {action}\n"
           \o "Observation: {observation}\n"
           \o "\n"
           \o "... (repeat as needed)\n"
           \o "\n"
           \o "Final Answer: {final_answer}"),
    Item("rlm/rag-prompt-cot",
           "Use the following pieces of context to answer the question at the end. Let's think step by step.\n"
           \o "\n"
           \o "Context:\n"
           \o "{context}\n"
           \o "\n"
           \o "Question: {question}\n"
           \o "\n"
           \o "Step by step reasoning:\n"
           \o "1. {step1}\n"
           \o "2. {step2}\n"
           \o "3. {step3}\n"
           \o "\n"
           \o "Final Answer:"),
    Item("langchain-ai/retrieval-qa-chat",
           "You are an AI assistant helping answer questions based on provided context.\n"
           \o "\n"
           \o "Context:\n"
           \o "{context}\n"
           \o "\n"
           \o "Question: {question}\n"
           \o "\n"
           \o "Please provide a helpful and accurate answer based on the context above."),
    Item("hwchase17/react",
           "Question: {question}\n"
           \o "\n"
           \o "Thought: {thought}\n"
           \o "Action: {action}\n"
           \o "Observation: {observation}\n"
           \o "\n"
           \o "Final Answer: {answer}"),
    Item("chain_of_thought",
           "Let's solve this step by step:\n"
           \o "\n"
           \o "1. First, understand the problem\n"
           \o "2. Break it down into smaller parts\n"
           \o "3. Work through each part systematically\n"
           \o "4. Combine the results\n"
           \o "\n"
           \o "Question: {question}\n"
           \o "\n"
           \o "Answer: {answer}"),
    Item("few_shot",
           "Here are some examples:\n"
           \o "\n"
           \o "Example 1:\n"
           \o "Input: {example1_input}\n"
           \o "Output: {example1_output}\n"
           \o "\n"
           \o "Example 2:\n"
           \o "Input: {example2_input}\n"
           \o "Output: {example2_output}\n"
           \o "\n"
           \o "Now solve this:\n"
           \o "Input: {input}\n"
           \o "Output:"),
    Item("role_prompting",
           "You are a {role} with expertise in {domain}.\n"
           \o "\n"
           \o "Task: {task}\n"
           \o "\n"
           \o "Instructions: {instructions}\n"
           \o "\n"
           \o "Please provide your response:")
  >>

Str(s) == [kind |-> "str", s |-> s]

NoneValue == [kind |-> "none", s |-> ""]

\* str(v)
StrOf(v) == IF v.kind = "none" THEN "None" ELSE v.s

RECURSIVE ReplaceFrom(_, _, _, _)
\* s[from:].replace(old, new) for a non-empty old
ReplaceFrom(s, old, new, from) ==
  LET i == Find(s, old, from)
  IN IF i = -1 THEN Slice(s, from, Len(s))
     ELSE Slice(s, from, i) \o new \o ReplaceFrom(s, old, new, i + Len(old))

\* s.replace(old, new)
Replace(s, old, new) == ReplaceFrom(s, old, new, 0)

RECURSIVE FindAllFrom(_, _)
\* the groups of the matches of \{([^}]+)\} in s[from:], left to right: a
\* match starts at a "{" that is not directly followed by "}" and ends at
\* the first "}" after it
FindAllFrom(s, from) ==
  LET i == Find(s, "{", from)
      j == Find(s, "}", i + 1)
  IN IF i = -1 \/ j = -1 THEN <<>>
     ELSE IF j = i + 1 THEN FindAllFrom(s, i + 1)
     ELSE <<Slice(s, i + 1, j)>> \o FindAllFrom(s, j + 1)

\* re.findall(r'\{([^}]+)\}', content)
findall(content) == FindAllFrom(content, 0)

\* the generic template of an unknown slug (the f-string doubles the
\* braces of the placeholder)
GenericContent(template_slug) ==
  "Template: " \o StrOf(template_slug) \o "\n\n{input}\n\n[Template content not available]"

\* the LangSmith collaborator: whether the package imports, whether
\* LANGSMITH_API_KEY is set, and the outcome of Client().pull_prompt
LangSmith(available, api_key, pull) ==
  [available |-> available, api_key |-> api_key, pull |-> pull]

\* TEMPLATE_CACHE[template_slug] = content; return content
Cached(content, template_slug, cache) ==
  [result |-> Return(content), cache |-> SetItem(cache, template_slug, content)]

\* a search that only finds the local slugs the requested one is part of
SimilarTemplatesContainedOnly(template_slug) ==
  SelectSeq(LOCAL_TEMPLATES, LAMBDA it : Contains(it.key, template_slug.s))

\* the local templates whose slug contains the requested one or is
\* contained in it, in the order of LOCAL_TEMPLATES
SimilarTemplates(template_slug) ==
  SelectSeq(LOCAL_TEMPLATES,
            LAMBDA it : Contains(it.key, template_slug.s) \/ Contains(template_slug.s, it.key))

\* the first similar template, the generic template if there is none
SimilarOrGeneric(similar, template_slug, cache) ==
  IF similar # <<>> THEN Cached(similar[1].value, template_slug, cache)
  ELSE Cached(GenericContent(template_slug), template_slug, cache)

\* lines 200-234: the local repository, the similar slugs, the generic
\* template; None in "..." raises TypeError
LocalLookup(template_slug, cache) ==
  IF template_slug.kind = "str" /\ template_slug.s \in Keys(LOCAL_TEMPLATES)
  THEN Cached(Get(LOCAL_TEMPLATES, template_slug.s), template_slug, cache)
  ELSE IF template_slug.kind = "str" /\ template_slug.s = "chain_of_thought"
       THEN Cached(Get(LOCAL_TEMPLATES, "chain_of_thought"), template_slug, cache)
  ELSE IF template_slug.kind = "none"
       THEN [result |-> Raise(Exc("TypeError", "")), cache |-> cache]
  ELSE SimilarOrGeneric(SimilarTemplates(template_slug), template_slug, cache)

\* a lookup that resolves the slug again although a content is cached
get_template_content_uncached(template_slug, cache, langsmith) ==
  IF langsmith.available /\ langsmith.api_key /\ langsmith.pull.kind = "return"
  THEN Cached(langsmith.pull.value, template_slug, cache)
  ELSE LocalLookup(template_slug, cache)

\* get_template_content: the outcome and TEMPLATE_CACHE afterwards; a
\* failure of the remote fetch is caught and the local repository is used
get_template_content(template_slug, cache, langsmith) ==
  IF template_slug \in Keys(cache)
  THEN [result |-> Return(Get(cache, template_slug)), cache |-> cache]
  ELSE IF langsmith.available /\ langsmith.api_key /\ langsmith.pull.kind = "return"
       THEN Cached(langsmith.pull.value, template_slug, cache)
       ELSE LocalLookup(template_slug, cache)

\* the dict get_template_with_metadata returns for a content; order is
\* list(variables), the iteration order of the set of variables; an error of
\* "" stands for a dict without the key "error"
Metadata(content, found, template_slug, order) ==
  IF content = ""
  THEN [content |-> GenericContent(template_slug), variables |-> <<"input">>,
        slug |-> template_slug, variable_count |-> 1,
        error |-> "Template content not available, using placeholder"]
  ELSE [content |-> content,
        variables |-> IF found # <<>> THEN order ELSE <<"input">>,
        slug |-> template_slug,
        variable_count |-> IF found # <<>> THEN Cardinality(Range(found)) ELSE 1,
        error |-> ""]

\* the outcome of get_template_with_metadata given the outcome of the lookup
WithMetadata(lookup, template_slug, order) ==
  IF lookup.result.kind = "raise" THEN lookup
  ELSE [result |-> Return(Metadata(lookup.result.value, findall(lookup.result.value),
                                   template_slug, order)),
        cache |-> lookup.cache]

\* get_template_with_metadata: the outcome and TEMPLATE_CACHE afterwards
get_template_with_metadata(template_slug, cache, langsmith, order) ==
  WithMetadata(get_template_content(template_slug, cache, langsmith), template_slug, order)

----------------------------------------------------------------------------
(* Template Merge Engine: HubService.merge_template_with_prompt            *)

\* the outcome of a block that ends without returning or raising
Pass == [kind |-> "pass", value |-> <<>>, exc |-> NoExc]

\* an LLM path that is tried for every provider and key
AttemptsLlmAlways(provider, api_key) == TRUE

\* provider != "ollama" or api_key
AttemptsLlm(provider, api_key) == provider # "ollama" \/ api_key # ""

\* a response of the merge program: whether it is truthy, whether it has
\* the attribute merged_template, and the attribute (a str, None or a list)
MergeResponse(truthy, has_field, merged_template) ==
  [truthy |-> truthy, has_field |-> has_field, merged_template |-> merged_template]

\* a non-empty list where a str is expected
ListValue == [kind |-> "list", s |-> ""]

\* any(var in merged_content for var in variables)
AnyVariableIn(merged_content, variables) ==
  \E i \in DOMAIN variables : Contains(merged_content, variables[i])

\* a validation that only looks at the length of the stripped answer
CheckedLengthOnly(merged_content, variables) ==
  IF Len(merged_content) > 10 THEN Return(merged_content) ELSE Pass

\* lines 341-345 for the stripped answer
Checked(merged_content, variables) ==
  IF Len(merged_content) > 10 /\ AnyVariableIn(merged_content, variables)
  THEN Return(merged_content) ELSE Pass

\* lines 337-347: the accepted text, an exception, or nothing
Validated(response, variables) ==
  IF ~ response.truthy \/ ~ response.has_field THEN Pass
  ELSE IF response.merged_template.kind = "none" THEN Pass
  ELSE IF response.merged_template.kind = "list"
       THEN Raise(Exc("AttributeError", ""))        \* [...].strip()
  ELSE IF response.merged_template.s = "" THEN Pass
  ELSE Checked(strip(response.merged_template.s), variables)

\* lines 326-347: entering dspy.context and the single completion
LlmCall(x, variables) ==
  IF x.context.kind = "raise" THEN [result |-> x.context, calls |-> 0]
  ELSE IF x.call1.kind = "raise" THEN [result |-> x.call1, calls |-> 1]
  ELSE [result |-> Validated(x.call1.value, variables), calls |-> 1]

\* a handler that lets every exception through
InnerCatchesNothing(e) == FALSE

\* except Exception (line 349)
InnerCatches(e) == IsA(e, "Exception")

\* the outcome of the inner try block after its handler
InnerHandled(r) == IF r.kind = "raise" /\ InnerCatches(r.exc) THEN Pass ELSE r

\* the inner try statement (lines 295-350) once configure_llm has run with
\* outcome cfg; call is the outcome of the rest of the block
LlmTry(cfg, call) ==
  IF cfg.result.kind = "raise"
  THEN [result |-> InnerHandled(cfg.result), settings |-> cfg.settings, calls |-> 0]
  ELSE [result |-> InnerHandled(call.result), settings |-> cfg.settings,
        calls |-> call.calls]

TypeError == Raise(Exc("TypeError", ""))

\* a {question} step that inserts the whole prompt whatever its length
FillQuestionUntruncated(r, template_content, user_prompt) ==
  IF r.kind = "raise" \/ ~ Contains(template_content, "{question}") THEN r
  ELSE IF user_prompt.kind = "none" THEN TypeError
  ELSE IF Len(user_prompt.s) <= 10 THEN r
  ELSE Return(Replace(r.value, "{question}", user_prompt.s))

\* lines 357-358: {question}; r is merged_content so far
FillQuestion(r, template_content, user_prompt) ==
  IF r.kind = "raise" \/ ~ Contains(template_content, "{question}") THEN r
  ELSE IF user_prompt.kind = "none" THEN TypeError            \* len(None)
  ELSE IF Len(user_prompt.s) <= 10 THEN r
  ELSE Return(Replace(r.value, "{question}",
                      IF Len(user_prompt.s) > 200
                      THEN Slice(user_prompt.s, 0, 200) \o "..."
                      ELSE user_prompt.s))

\* lines 359-360: {input}
FillInput(r, template_content, user_prompt) ==
  IF r.kind = "raise" \/ ~ Contains(template_content, "{input}") THEN r
  ELSE IF user_prompt.kind = "none" THEN TypeError            \* replace(_, None)
  ELSE Return(Replace(r.value, "{input}", user_prompt.s))

\* lines 361-362: {context}
FillContext(r, template_content, user_prompt) ==
  IF r.kind = "raise" \/ ~ Contains(template_content, "{context}") THEN r
  ELSE IF user_prompt.kind = "none" THEN TypeError            \* len(None)
  ELSE IF Len(user_prompt.s) <= 50 THEN r
  ELSE Return(Replace(r.value, "{context}", user_prompt.s))

\* "{" + var + "}"
Placeholder(var) == "{" \o var \o "}"

\* remaining_variables (line 365)
remaining_variables(variables, merged_content) ==
  SelectSeq(variables, LAMBDA var : Contains(merged_content, Placeholder(var)))

InstructionNames == {"instruction", "task", "query"}

AnswerNames == {"answer", "response", "output"}

RECURSIVE FillVariables(_, _, _)
\* the loop of lines 366-374 over the variables it is given
FillVariables(remaining, merged_content, user_prompt) ==
  IF remaining = <<>> THEN Return(merged_content)
  ELSE IF ~ Contains(merged_content, Placeholder(Head(remaining)))
       THEN FillVariables(Tail(remaining), merged_content, user_prompt)
  ELSE IF lower(Head(remaining)) \in InstructionNames
       THEN IF user_prompt.kind = "none" THEN TypeError       \* None[:100]
            ELSE FillVariables(Tail(remaining),
                               Replace(merged_content, Placeholder(Head(remaining)),
                                       Slice(user_prompt.s, 0, 100)),
                               user_prompt)
  ELSE IF lower(Head(remaining)) \in AnswerNames
       THEN FillVariables(Tail(remaining),
                          Replace(merged_content, Placeholder(Head(remaining)),
                                  "[Answer will be generated based on the above]"),
                          user_prompt)
  ELSE FillVariables(Tail(remaining),
                     Replace(merged_content, Placeholder(Head(remaining)),
                             "[Content for " \o Head(remaining) \o "]"),
                     user_prompt)

\* remaining_variables[:3]
RemainingMax == 3

\* the loop over every remaining variable, without the cap of 3
FillRemainingUncapped(r, variables, user_prompt) ==
  IF r.kind = "raise" THEN r
  ELSE FillVariables(remaining_variables(variables, r.value), r.value, user_prompt)

\* lines 365-374
FillRemaining(r, variables, user_prompt) ==
  IF r.kind = "raise" THEN r
  ELSE FillVariables(Slice(remaining_variables(variables, r.value), 0, RemainingMax),
                     r.value, user_prompt)

\* the fallback of lines 352-377: the merged text or the exception raised
Fallback(template_content, variables, user_prompt) ==
  FillRemaining(
    FillContext(
      FillInput(
        FillQuestion(Return(template_content), template_content, user_prompt),
        template_content, user_prompt),
      template_content, user_prompt),
    variables, user_prompt)

\* a str outcome as the value handed to the caller
AsStr(r) == IF r.kind = "return" THEN Return(Str(r.value)) ELSE r

\* lines 294-377 given the outcome llm of the inner try statement
Finish(llm, template_content, variables, user_prompt, cache) ==
  [result |-> IF llm.result.kind = "pass"
              THEN AsStr(Fallback(template_content, variables, user_prompt))
              ELSE AsStr(llm.result),
   cache |-> cache, settings |-> llm.settings, calls |-> llm.calls]

\* no LLM path: the outcome of an inner try statement that was skipped
Skipped(settings) == [result |-> Pass, settings |-> settings, calls |-> 0]

\* lines 287-377 for the resolved template
WithTemplate(template_info, cache, user_prompt, provider, model, api_key, x, settings) ==
  IF template_info.content = "" \/ template_info.variables = <<>>
  THEN [result |-> Return(user_prompt), cache |-> cache, settings |-> settings,
        calls |-> 0]
  ELSE Finish(IF AttemptsLlm(provider, api_key)
              THEN LlmTry(configure_llm(provider, model, api_key, x.construct, settings),
                          LlmCall(x, template_info.variables))
              ELSE Skipped(settings),
              template_info.content, template_info.variables, user_prompt, cache)

\* the body of the outer try block given the outcome info of
\* get_template_with_metadata
MergeBody(info, user_prompt, provider, model, api_key, x, settings) ==
  IF info.result.kind = "raise"
  THEN [result |-> info.result, cache |-> info.cache, settings |-> settings,
        calls |-> 0]
  ELSE WithTemplate(info.result.value, info.cache, user_prompt, provider, model,
                    api_key, x, settings)

\* except Exception (line 379)
MergeCatches(e) == IsA(e, "Exception")

\* the outer handler: return user_prompt
MergeHandled(body, user_prompt) ==
  [body EXCEPT !.result = IF @.kind = "raise" /\ MergeCatches(@.exc)
                          THEN Return(user_prompt) ELSE @]

\* merge_template_with_prompt: the outcome, TEMPLATE_CACHE and
\* dspy.settings.lm afterwards, and the number of completions requested.
\* x holds what the collaborators do and order is list(variables)
merge_template_with_prompt(user_prompt, template_slug, provider, model, api_key, x, order, cache, settings) ==
  MergeHandled(
    MergeBody(get_template_with_metadata(template_slug, cache, x.langsmith, order),
              user_prompt, provider, model, api_key, x, settings),
    user_prompt)

\* a prompt of more than 200 characters (7 * 32)
LongPrompt ==
  "Summarise the quarterly report. " \o "Summarise the quarterly report. "
  \o "Summarise the quarterly report. " \o "Summarise the quarterly report. "
  \o "Summarise the quarterly report. " \o "Summarise the quarterly report. "
  \o "Summarise the quarterly report. "

\* the prompts merged: at most 10 characters (empty), 11 to 50, 51 to 200,
\* more than 200, one of more than 50 that holds placeholders itself, and
\* None
MergePrompts ==
  {Str(""), Str("Explain photosynthesis"),
   Str("Explain photosynthesis using the provided biology textbook excerpt"),
   Str(LongPrompt),
   Str("Use {context} and {input} as a {role} would in the biology excerpt"),
   NoneValue}

\* the slugs requested: three of the local repository, one that is part of
\* a local slug, one that is unknown, and None
MergeSlugs ==
  {Str("rlm/rag-prompt"), Str("role_prompting"), Str("chain_of_thought"),
   Str("rag"), Str("nonexistent/template"), NoneValue}

\* provider and key: the defaults, the local provider with a key, a hosted
\* provider without and with a key
MergeConfigs ==
  {<<"ollama", "">>, <<"ollama", "sk-1">>, <<"openrouter", "">>, <<"groq", "sk-1">>}

MergeRequests ==
  {[user_prompt |-> u, template_slug |-> t, provider |-> c[1], model |-> "gemma:2b",
    api_key |-> c[2]] : u \in MergePrompts, t \in MergeSlugs, c \in MergeConfigs}

\* str(prompt) of a prompt pulled from LangSmith: with placeholders,
\* without, empty
RemoteContents == {"Answer {question} from {context}.", "Be brief.", ""}

\* LangSmith during a lookup that is not served from the cache
LangSmithOutcomes ==
  {LangSmith(FALSE, FALSE, Idle), LangSmith(TRUE, FALSE, Idle),
   LangSmith(TRUE, TRUE, Raise(Exc("ConnectionError", "")))}
  \cup {LangSmith(TRUE, TRUE, Return(c)) : c \in RemoteContents}

\* LangSmith when every lookup is served from the cache
NotConsulted == LangSmith(FALSE, FALSE, Idle)

\* the answers of the merge program: None, one without the output field,
\* the field None, empty, short, long without and with variable names, a list
MergeResponses ==
  {MergeResponse(FALSE, FALSE, NoneValue), MergeResponse(TRUE, FALSE, NoneValue),
   MergeResponse(TRUE, TRUE, NoneValue), MergeResponse(TRUE, TRUE, ListValue)}
  \cup {MergeResponse(TRUE, TRUE, Str(s)) :
          s \in {"", "  ok  ", "The completed prompt is ready for use.",
                 "  As a role, answer the question from the context: task input.\n"}}

\* what the LLM collaborator may do during one merge request: construct,
\* context and call1 are outcomes, one that is never reached is left at Idle
LlmOutcomes ==
  {<<Raise(Exc("AttributeError", "OpenAI")), Idle, Idle>>,
   <<Idle, Raise(Exc("TypeError", "context")), Idle>>,
   <<Idle, Idle, Raise(Exc("TimeoutError", ""))>>,
   <<Idle, Idle, Raise(Exc("ConnectionError", ""))>>}
  \cup {<<Idle, Idle, Return(r)>> : r \in MergeResponses}

\* the LLM collaborator is reached only when the LLM path is attempted and
\* the provider and key pass the checks of configure_llm
ReachesLlm(provider, api_key) ==
  /\ AttemptsLlm(provider, api_key)
  /\ \/ provider = "ollama"
     \/ provider \in {"openrouter", "groq"} /\ api_key # ""

LangSmithFor(template_slug, cache) ==
  IF template_slug \in Keys(cache) THEN {NotConsulted} ELSE LangSmithOutcomes

\* the LangSmith outcomes under which every LLM outcome is tried: the
\* local repository is used, a remote template with placeholders is used
LangSmithVaried ==
  {NotConsulted, LangSmith(TRUE, FALSE, Idle),
   LangSmith(TRUE, TRUE, Return("Answer {question} from {context}."))}

\* what the collaborators may do during one request: every LangSmith
\* outcome with a completion that times out, and every LLM outcome with the
\* LangSmith outcomes of LangSmithVaried
Collaborators(template_slug, cache, provider, api_key) ==
  IF ~ ReachesLlm(provider, api_key)
  THEN {<<ls, <<Idle, Idle, Idle>>>> : ls \in LangSmithFor(template_slug, cache)}
  ELSE {<<ls, <<Idle, Idle, Raise(Exc("TimeoutError", ""))>>>> :
          ls \in LangSmithFor(template_slug, cache)}
       \cup {<<ls, llm>> :
               ls \in LangSmithFor(template_slug, cache) \cap LangSmithVaried,
               llm \in LlmOutcomes}

\* what the collaborators do during one merge request, and list(variables)
MergeExt(langsmith, llm, order) ==
  [kind |-> "merge", langsmith |-> langsmith, construct |-> llm[1],
   context |-> llm[2], call1 |-> llm[3], call2 |-> Idle, order |-> order]

\* the set of variables of the content a lookup yields
VariablesOf(lookup) ==
  IF lookup.result.kind = "raise" THEN {}
  ELSE Range(findall(lookup.result.value))

\* a call of merge_template_with_prompt
MergeTemplateWithPrompt ==
  /\ op = "merge"
  /\ pc = "called"
  /\ \E c \in Collaborators(req.template_slug, TEMPLATE_CACHE, req.provider,
                            req.api_key) :
       \E order \in IterationOrders(
                      VariablesOf(get_template_content(req.template_slug,
                                                       TEMPLATE_CACHE, c[1]))) :
         \E r \in {merge_template_with_prompt(
                     req.user_prompt, req.template_slug, req.provider, req.model,
                     req.api_key, MergeExt(c[1], c[2], order), order, TEMPLATE_CACHE,
                     settings_lm)} :
            /\ resp' = r.result
            /\ TEMPLATE_CACHE' = r.cache
            /\ settings_lm' = r.settings
            /\ llm_calls' = r.calls
            /\ ext' = MergeExt(c[1], c[2], order)
  /\ pc' = "returned"
  /\ UNCHANGED <<op, req>>

\* the next request arrives in the same process: the same template, the
\* default provider and no key
NextMergeRequest ==
  /\ op = "merge"
  /\ pc = "returned"
  /\ \E r \in MergeRequests :
       /\ r.template_slug = req.template_slug
       /\ r.provider = "ollama" /\ r.api_key = ""
       /\ req' = r
  /\ pc' = "called"
  /\ resp' = [kind |-> "none"]
  /\ ext' = [kind |-> "none"]
  /\ llm_calls' = 0
  /\ UNCHANGED <<op, TEMPLATE_CACHE, settings_lm>>

InitMerge ==
  /\ op = "merge"
  /\ pc = "called"
  /\ req \in MergeRequests
  /\ resp = [kind |-> "none"]
  /\ ext = [kind |-> "none"]
  /\ TEMPLATE_CACHE = <<>>
  /\ settings_lm = Unset
  /\ llm_calls = 0

NextMerge == MergeTemplateWithPrompt \/ NextMergeRequest

SpecMerge == InitMerge /\ [][NextMerge]_vars

----------------------------------------------------------------------------
(* The two operations that request the LLM: a refine request or a merge    *)
(* request                                                                 *)

SpecLlm == (InitRefine \/ InitMerge) /\ [][NextRefine \/ NextMerge]_vars

----------------------------------------------------------------------------
(* Template lookups served concurrently: HubService.get_template_content   *)
(* called from several callers that share TEMPLATE_CACHE, and the route    *)
(* GET /templates/content, which keeps its own copy of LOCAL_TEMPLATES     *)

\* the dict the route GET /templates/content/{template_slug} returns; order
\* is list(variables)
template_content_route(template_slug, order) ==
  IF template_slug.s \in Keys(LOCAL_TEMPLATES)
  THEN [content |-> Get(LOCAL_TEMPLATES, template_slug.s), variables |-> order,
        slug |-> template_slug, variable_count |-> Len(order), error |-> ""]
  ELSE [content |-> "Template '" \o template_slug.s
                    \o "' not found. Available templates: "
                    \o LET join[i \in 0..Len(LOCAL_TEMPLATES)] ==
                             IF i = 0 THEN ""
                             ELSE IF i = 1 THEN LOCAL_TEMPLATES[1].key
                             ELSE join[i - 1] \o ", " \o LOCAL_TEMPLATES[i].key
                       IN join[Len(LOCAL_TEMPLATES)],
        variables |-> <<"input">>, slug |-> template_slug, variable_count |-> 1,
        error |-> "Template not found"]

\* the number of callers that run at the same time
MaxCallers == 2

Callers == 1..MaxCallers

\* the slugs looked up: a key of the local repository, a part of a local
\* slug, one that holds a local slug, the empty slug, an unknown one, an
\* unknown one that holds a placeholder, None
LookupSlugs ==
  {Str("rlm/rag-prompt"), Str("rag"), Str("my_few_shot_v2"), Str(""),
   Str("nonexistent/template"), Str("notes/{topic}"), NoneValue}

\* lines 174-176 for caller c: a cached content is returned; otherwise the
\* caller goes on to resolve the slug, and what LangSmith will do for it is
\* fixed here (whether the package imports, whether LANGSMITH_API_KEY is set
\* and the text LangSmith holds for the slug are the same for every caller
\* of the process; whether the fetch succeeds is not)
CheckCache(c) ==
  /\ op = "lookup"
  /\ pc[c] = "idle"
  /\ IF req[c] \in Keys(TEMPLATE_CACHE)
     THEN /\ resp' = [resp EXCEPT ![c] = Return(Get(TEMPLATE_CACHE, req[c]))]
          /\ pc' = [pc EXCEPT ![c] = "returned"]
          /\ ext' = [ext EXCEPT ![c] = [kind |-> "lookup", hit |-> TRUE,
                                        langsmith |-> NotConsulted]]
     ELSE /\ \E ls \in LangSmithOutcomes :
               /\ \A d \in Callers :
                    (ext[d].kind = "lookup" /\ ~ ext[d].hit) =>
                      /\ ls.available = ext[d].langsmith.available
                      /\ ls.api_key = ext[d].langsmith.api_key
                      /\ (ls.pull.kind = "return"
                          /\ ext[d].langsmith.pull.kind = "return")
                           => ls.pull = ext[d].langsmith.pull
               /\ ext' = [ext EXCEPT ![c] = [kind |-> "lookup", hit |-> FALSE,
                                             langsmith |-> ls]]
          /\ pc' = [pc EXCEPT ![c] = "missed"]
          /\ resp' = resp
  /\ UNCHANGED <<op, req, TEMPLATE_CACHE, settings_lm, llm_calls>>

\* lines 178-234 for caller c, who found nothing cached: the content is
\* resolved, written to the shared TEMPLATE_CACHE and returned
StoreContent(c) ==
  /\ op = "lookup"
  /\ pc[c] = "missed"
  /\ \E r \in {get_template_content(req[c], <<>>, ext[c].langsmith)} :
       /\ resp' = [resp EXCEPT ![c] = r.result]
       /\ TEMPLATE_CACHE' = IF r.result.kind = "return"
                            THEN SetItem(TEMPLATE_CACHE, req[c], r.result.value)
                            ELSE TEMPLATE_CACHE
  /\ pc' = [pc EXCEPT ![c] = "returned"]
  /\ UNCHANGED <<op, req, ext, settings_lm, llm_calls>>

\* the route GET /templates/content called by caller c
TemplateContentRoute(c) ==
  /\ op = "lookup"
  /\ pc[c] = "idle"
  /\ req[c].kind = "str"
  /\ \E order \in IterationOrders(
                    IF req[c].s \in Keys(LOCAL_TEMPLATES)
                    THEN Range(findall(Get(LOCAL_TEMPLATES, req[c].s))) ELSE {}) :
       resp' = [resp EXCEPT ![c] = Return(template_content_route(req[c], order))]
  /\ ext' = [ext EXCEPT ![c] = [kind |-> "route", hit |-> FALSE,
                                langsmith |-> NotConsulted]]
  /\ pc' = [pc EXCEPT ![c] = "returned"]
  /\ UNCHANGED <<op, req, TEMPLATE_CACHE, settings_lm, llm_calls>>

\* the callers ask for the same slug; nothing is cached yet
InitLookup ==
  /\ op = "lookup"
  /\ pc = [c \in Callers |-> "idle"]
  /\ \E s \in LookupSlugs : req = [c \in Callers |-> s]
  /\ resp = [c \in Callers |-> [kind |-> "none"]]
  /\ ext = [c \in Callers |-> [kind |-> "none"]]
  /\ TEMPLATE_CACHE = <<>>
  /\ settings_lm = Unset
  /\ llm_calls = 0

NextLookup ==
  \E c \in Callers : CheckCache(c) \/ StoreContent(c) \/ TemplateContentRoute(c)

SpecLookup == InitLookup /\ [][NextLookup]_vars

----------------------------------------------------------------------------
(* Properties of the Pattern Matcher (SpecDetect)                          *)

\* the number of matches of all triggers of a catalogue pattern in text s
MatchesIn(name, s) == Len(AllMatches(Info(name).keywords, s, CharIndex(s)))

\* the number of matches of all triggers of a catalogue pattern in the
\* lower-cased prompt, the case of a letter being ignored
TriggerMatches(name, prompt) == MatchesIn(name, IgnoreCase(lower(prompt)))

\* some few_shot trigger matches somewhere in the lower-cased prompt
FewShotTriggered(prompt) == MatchesIn("few_shot", lower(prompt)) >= 1

\* some negative keyword of the zero_shot entry occurs in the lower-cased prompt
NegativeKeywordPresent(prompt) ==
  \E i \in DOMAIN Info("zero_shot").negative_keywords :
     Contains(lower(prompt), Info("zero_shot").negative_keywords[i])

C5_ConfidenceFormula ==
  (op = "detect" /\ pc = "returned") =>
    \A name \in PatternNames \ {"zero_shot"} :
      LET n == TriggerMatches(name, req.prompt)
      IN /\ (name \in Keys(resp.value)) <=> (n >= 1)
         /\ name \in Keys(resp.value) =>
              /\ Get(resp.value, name).confidence = Min(100, 35 * n)
              /\ Get(resp.value, name).confidence <= 100

\* a pattern with more than three matches was emitted, at the clamp
C5_Witness ==
  /\ op = "detect" /\ pc = "returned"
  /\ \E name \in Keys(resp.value) \ {"zero_shot"} :
       /\ TriggerMatches(name, req.prompt) > 3
       /\ Get(resp.value, name).confidence = 100

\* C6 as stated: detect_patterns on the empty prompt returns an empty
\* DetectionResult.
C6_EmptyPromptEmptyResult ==
  (op = "detect" /\ pc = "returned" /\ req.prompt = "") => resp.value = <<>>

\* C6 amended: detect_patterns on the empty prompt returns exactly one
\* pattern, the zero_shot sentinel at confidence 0.7.
C6_EmptyPromptZeroShotOnly ==
  (op = "detect" /\ pc = "returned" /\ req.prompt = "") =>
    /\ Len(resp.value) = 1
    /\ resp.value[1].key = "zero_shot"
    /\ resp.value[1].value.confidence = 70

\* detect_patterns has returned for the empty prompt
C6_Witness ==
  /\ op = "detect" /\ pc = "returned" /\ req.prompt = ""
  /\ resp.value # <<>>

----------------------------------------------------------------------------
(* Properties of the Template Recommender (SpecSuggest)                    *)

RECURSIVE SeqSum(_)
SeqSum(xs) == IF xs = <<>> THEN 0 ELSE Head(xs) + SeqSum(Tail(xs))

\* the sum of the confidences of all patterns of a DetectionResult
TotalOf(d) == SeqSum([i \in DOMAIN d |-> d[i].value.confidence])

\* the sum of the confidences of the patterns of d whose affinity entry
\* lists slug
MatchedOf(d, slug) ==
  SeqSum([i \in DOMAIN d |->
            IF \E j \in DOMAIN PATTERN_TO_HUB_MAP :
                 /\ PATTERN_TO_HUB_MAP[j].pattern = d[i].key
                 /\ slug \in Range(PATTERN_TO_HUB_MAP[j].slugs)
            THEN d[i].value.confidence ELSE 0])

\* the slugs of the affinity entries of the detected pattern names
CandidateSlugs(d) ==
  {slug \in UNION {Range(PATTERN_TO_HUB_MAP[j].slugs) : j \in DOMAIN PATTERN_TO_HUB_MAP} :
     \E i \in DOMAIN d, j \in DOMAIN PATTERN_TO_HUB_MAP :
        /\ PATTERN_TO_HUB_MAP[j].pattern = d[i].key
        /\ slug \in Range(PATTERN_TO_HUB_MAP[j].slugs)}

\* s is matched / total * 100 rounded to 2 decimals (s in hundredths):
\* no integer is nearer to 10000 * matched / total, and of two nearest the
\* even one is taken
IsRounded(s, matched, total) ==
  LET err == 2 * (s * total - 10000 * matched)
  IN /\ err <= total /\ 0 - err <= total
     /\ (err = total \/ 0 - err = total) => s % 2 = 0

\* C7: get_suggestions returns the empty list when the DetectionResult is
\* empty and when its confidences sum to zero, and never divides by zero.
C7_EmptyOrZeroTotalGivesEmpty ==
  (op = "suggest" /\ pc = "returned") =>
    /\ resp.kind = "return"
    /\ (req.patterns = <<>> \/ TotalOf(req.patterns) = 0) => resp.value = <<>>

\* a non-empty request with candidate templates and zero total confidence
\* was answered
C7_Witness ==
  /\ op = "suggest" /\ pc = "returned"
  /\ req.patterns # <<>>
  /\ CandidateSlugs(req.patterns) # {}
  /\ TotalOf(req.patterns) = 0
  /\ resp = [kind |-> "return", value |-> <<>>]

\* C8: with non-zero total confidence there is exactly one suggestion per
\* slug of the affinity entries of the detected names, and its score is
\* round(matched / total * 100, 2): total over ALL detected patterns, matched
\* over those whose affinity entry lists the slug.
C8_OnePerSlugWithShareScore ==
  (op = "suggest" /\ pc = "returned" /\ TotalOf(req.patterns) # 0) =>
    /\ resp.kind = "return"
    /\ {resp.value[i].name : i \in DOMAIN resp.value} = CandidateSlugs(req.patterns)
    /\ Len(resp.value) = Cardinality(CandidateSlugs(req.patterns))
    /\ \A i \in DOMAIN resp.value :
         IsRounded(resp.value[i].score,
                   MatchedOf(req.patterns, resp.value[i].name),
                   TotalOf(req.patterns))

\* a request holding an unmapped pattern of positive confidence next to a
\* mapped one was answered with a score that is not a whole percentage
C8_Witness ==
  /\ op = "suggest" /\ pc = "returned"
  /\ \E i \in DOMAIN req.patterns :
       ~ Mapped(req.patterns[i].key) /\ req.patterns[i].value.confidence > 0
  /\ \E i \in DOMAIN resp.value :
       resp.value[i].score % 100 # 0 /\ resp.value[i].score < 10000

\* C9: the returned list is ordered by score descending and no slug appears
\* twice.
C9_SortedDescendingNoDuplicate ==
  (op = "suggest" /\ pc = "returned") =>
    /\ resp.kind = "return"
    /\ \A i \in 1..(Len(resp.value) - 1) :
         resp.value[i].score >= resp.value[i + 1].score
    /\ \A i, j \in DOMAIN resp.value :
         resp.value[i].name = resp.value[j].name => i = j

\* a list with at least three suggestions and three different scores was
\* returned
C9_Witness ==
  /\ op = "suggest" /\ pc = "returned"
  /\ Cardinality({resp.value[i].score : i \in DOMAIN resp.value}) >= 3

\* C10: two calls with the same DetectionResult return the same ordered
\* list (equal scores included).
C10_SameRequestSameList ==
  [][(op = "suggest" /\ pc = "returned" /\ pc' = "returned" /\ req' = req)
       => resp' = resp]_vars

----------------------------------------------------------------------------
(* Properties of the Refinement Bridge (SpecRefine)                        *)

\* the answers the collaborator gave during the request
AnswersGiven ==
  {c.value.refined_json :
     c \in {x \in {ext.call1, ext.call2} :
              x.kind = "return" /\ x.value # <<>> /\ x.value.has_field}}

\* an entry has the shape of a PatternMatch
WellFormed(data) ==
  /\ data.kind = "object"
  /\ data.confidence.kind \in {"missing", "number"}
  /\ data.evidence.kind \in {"missing", "list"}

\* the entries of an answer whose name is in the catalogue
KnownEntries(t) ==
  SelectSeq(t.doc.patterns.entries, LAMBDA e : e.name \in PatternNames)

\* the answer decodes into the expected structure: it is text, nothing is
\* left around the document once a leading json fence and a trailing fence
\* are removed, the document is an object whose "patterns" (if present) is an
\* object, and every entry with a catalogue name has the shape of a
\* PatternMatch
Decodes(t) ==
  /\ t.kind = "str"
  /\ t.lead \in {"none", "fence_json"}
  /\ t.doc.kind = "object"
  /\ t.doc.patterns.kind \in {"missing", "object"}
  /\ \A i \in DOMAIN KnownEntries(t) : WellFormed(KnownEntries(t)[i].data)

\* the whole refined set of an answer that decodes: one PatternMatch per
\* known entry, defaults from the catalogue
WholeRefined(t) ==
  [i \in DOMAIN KnownEntries(t) |->
     LET e == KnownEntries(t)[i]
     IN Item(e.name,
             PatternMatch(e.name,
               IF e.data.confidence.kind = "missing" THEN 0 ELSE e.data.confidence.value,
               IF e.data.evidence.kind = "missing" THEN <<>> ELSE e.data.evidence.value,
               IF e.data.description.kind = "missing"
               THEN Info(e.name).description ELSE e.data.description.value,
               IF e.data.category.kind = "missing"
               THEN Info(e.name).category ELSE e.data.category.value))]

\* C2: when the LLM answer cannot be decoded into the expected structure
\* (a document of the wrong shape included) or no known pattern is decoded
\* from it, refine returns the rule-based result unchanged; the result is
\* always the whole rule-based result or the whole refined set.
C2_UndecodableGivesRuleResult ==
  (op = "refine" /\ pc = "returned") =>
    /\ resp.kind = "return"
    /\ (\A t \in AnswersGiven : ~ Decodes(t) \/ KnownEntries(t) = <<>>)
         => resp.value = req.detected_patterns
    /\ \/ resp.value = req.detected_patterns
       \/ \E t \in AnswersGiven : Decodes(t) /\ resp.value = WholeRefined(t)

\* the answer was a decodable document whose first known entry is well
\* formed and whose second is not, and the rule-based result came back
C2_Witness ==
  /\ op = "refine" /\ pc = "returned"
  /\ llm_calls = 1
  /\ \E t \in AnswersGiven :
       /\ t.kind = "str" /\ t.lead = "none" /\ t.trail = "none"
       /\ t.doc.kind = "object" /\ t.doc.patterns.kind = "object"
       /\ Len(KnownEntries(t)) = 2
       /\ WellFormed(KnownEntries(t)[1].data)
       /\ ~ WellFormed(KnownEntries(t)[2].data)
  /\ resp.value = req.detected_patterns

\* configuration of the provider fails for this request
ConfigurationFails ==
  \/ req.provider \notin {"ollama", "openrouter", "groq"}
  \/ req.provider \in {"openrouter", "groq"} /\ req.api_key = ""
  \/ ext.construct.kind = "raise"

\* some step of the external path failed during the request
SomeExternalFailure ==
  \/ ConfigurationFails
  \/ ext.context.kind = "raise"
  \/ ext.call1.kind = "raise"
  \/ llm_calls = 2 /\ ext.call2.kind = "raise"

\* the external path ended in a failure: configuration, entering the
\* context, or the last completion attempted
ExternalPathFailed ==
  \/ ConfigurationFails
  \/ ext.context.kind = "raise"
  \/ llm_calls = 1 /\ ext.call1.kind = "raise"
  \/ llm_calls = 2 /\ ext.call2.kind = "raise"

----------------------------------------------------------------------------
(* Properties of the Template Merge Engine (SpecMerge)                     *)

\* the lookup of the request raised: nothing is cached for its slug
LookupRaised == req.template_slug \notin Keys(TEMPLATE_CACHE)

\* the remote fetch of the template was attempted and raised
RemoteFetchFailed ==
  /\ ext.langsmith.available /\ ext.langsmith.api_key
  /\ ext.langsmith.pull.kind = "raise"

\* the template the request was merged into, as get_template_with_metadata
\* describes the cached content
MergedInto ==
  Metadata(Get(TEMPLATE_CACHE, req.template_slug),
           findall(Get(TEMPLATE_CACHE, req.template_slug)),
           req.template_slug, ext.order)

\* what the deterministic fallback gives for the request
FallbackOfRequest ==
  Fallback(MergedInto.content, MergedInto.variables, req.user_prompt)

\* the value merge hands back when the fallback is reached: its text, or
\* user_prompt when a substitution raised
FallbackValue(fb) == IF fb.kind = "raise" THEN req.user_prompt ELSE Str(fb.value)

\* the LLM path was attempted and configuration, entering the context or the
\* completion raised
LlmPathRaised ==
  /\ AttemptsLlm(req.provider, req.api_key)
  /\ \/ ~ ReachesLlm(req.provider, req.api_key)
     \/ ext.construct.kind = "raise"
     \/ ext.context.kind = "raise"
     \/ ext.call1.kind = "raise"

\* some step inside merge raised: the lookup, the LLM path, or a
\* substitution of the fallback
SomeMergeError ==
  \/ LookupRaised
  \/ LlmPathRaised
  \/ ~ AttemptsLlm(req.provider, req.api_key) /\ FallbackOfRequest.kind = "raise"

\* C1 as stated: merge_template_with_prompt never raises, and whenever an
\* error occurs anywhere inside it (template lookup, LLM configuration, LLM
\* call, substitution) the value returned is exactly the original user_prompt.
C1_AnyErrorReturnsUserPrompt ==
  (op = "merge" /\ pc = "returned") =>
    /\ resp.kind = "return"
    /\ SomeMergeError => resp.value = req.user_prompt

\* C1 amended: merge_template_with_prompt never raises; an exception of the
\* lookup or of a fallback substitution returns user_prompt unchanged; an
\* exception of LLM configuration or of the LLM call is caught inside and
\* the result is what the deterministic fallback gives for the template; a
\* failed remote fetch is caught inside the lookup, which then resolves the
\* slug locally.
C1_OnlyOuterErrorsReturnUserPrompt ==
  (op = "merge" /\ pc = "returned") =>
    /\ resp.kind = "return"
    /\ LookupRaised => resp.value = req.user_prompt
    /\ (~ LookupRaised /\ (LlmPathRaised \/ ~ AttemptsLlm(req.provider, req.api_key)))
         => resp.value = FallbackValue(FallbackOfRequest)
    /\ (~ LookupRaised /\ RemoteFetchFailed)
         => Get(TEMPLATE_CACHE, req.template_slug)
              = LocalLookup(req.template_slug, <<>>).result.value

\* the only completion of the request timed out and the fallback text, which
\* holds the prompt, came back instead of the prompt
C1_Witness ==
  /\ op = "merge" /\ pc = "returned"
  /\ llm_calls = 1
  /\ ext.call1.kind = "raise" /\ ext.call1.exc.type = "TimeoutError"
  /\ req.user_prompt.kind = "str" /\ Len(req.user_prompt.s) > 10
  /\ resp.kind = "return" /\ resp.value.kind = "str"
  /\ resp.value # req.user_prompt
  /\ Contains(resp.value.s, req.user_prompt.s)

\* the request was answered by the fallback alone: no LLM path, a template
\* was resolved
FallbackOnly ==
  /\ op = "merge" /\ pc = "returned"
  /\ ~ AttemptsLlm(req.provider, req.api_key)
  /\ ~ LookupRaised

\* C11: when the LLM path is not attempted, a fixed (user_prompt,
\* template_slug) gives the same text on every call, whichever order the
\* set of variables is visited in: the placeholders filled and those left
\* verbatim are the same.
C11_SameTextForEveryCall ==
  FallbackOnly =>
    \A o \in IterationOrders(Range(findall(MergedInto.content))) :
      resp.value = FallbackValue(Fallback(MergedInto.content, o, req.user_prompt))

----------------------------------------------------------------------------
(* Properties of the template lookup (SpecLookup)                          *)

\* caller c asked for a str slug that is not a key of the catalog and has
\* its answer
UnknownSlugAnswered(c) ==
  /\ op = "lookup" /\ pc[c] = "returned"
  /\ req[c].kind = "str" /\ req[c].s \notin Keys(LOCAL_TEMPLATES)

\* caller c's lookup was resolved from the local repository: nothing was
\* cached for the slug and LangSmith gave no content
ResolvedLocally(c) ==
  /\ ext[c].kind = "lookup" /\ ~ ext[c].hit
  /\ ~ (ext[c].langsmith.available /\ ext[c].langsmith.api_key
        /\ ext[c].langsmith.pull.kind = "return")

CatalogBodies == {LOCAL_TEMPLATES[i].value : i \in DOMAIN LOCAL_TEMPLATES}

\* the positions of the catalog templates whose slug holds s or is held by it
SimilarPositions(s) ==
  {i \in DOMAIN LOCAL_TEMPLATES :
     Contains(LOCAL_TEMPLATES[i].key, s) \/ Contains(s, LOCAL_TEMPLATES[i].key)}

\* body is a synthesized placeholder for slug s: it holds the literal slug
\* and the variable {input}, its only one when the slug holds no placeholder,
\* and it is not the body of a catalog template
IsPlaceholderFor(body, s) ==
  /\ Contains(body, s)
  /\ Contains(body, "{input}")
  /\ findall(s) = <<>> => findall(body) = <<"input">>
  /\ body \notin CatalogBodies

LocallyResolved(c, v) ==
  IF SimilarPositions(req[c].s) # {}
  THEN v = LOCAL_TEMPLATES[SetMin(SimilarPositions(req[c].s))].value
  ELSE IsPlaceholderFor(v, req[c].s)

----------------------------------------------------------------------------
(* Properties of the operations that request the LLM (SpecLlm)             *)

\* a hosted provider was selected and no API key was given
HostedWithoutKey == req.provider \in {"openrouter", "groq"} /\ req.api_key = ""

\* the request has been answered and it asked for the LLM: a refine request,
\* or a merge request whose template was resolved and whose provider or key
\* is not the default
LlmRequested ==
  /\ pc = "returned"
  /\ \/ op = "refine"
     \/ op = "merge" /\ ~ LookupRaised /\ AttemptsLlm(req.provider, req.api_key)

\* C13 as stated: when a hosted provider is selected with no API key, the
\* configuration error is surfaced to the caller of the operation that
\* requested the LLM (refine and merge included) and is not swallowed into a
\* fallback result.
C13_ConfigurationErrorSurfaced ==
  (LlmRequested /\ HostedWithoutKey) => resp.kind = "raise"

\* C13 amended: with a hosted provider and no key configure_llm fails before
\* anything is configured or called, and the operation that requested the
\* LLM catches the failure: refine returns the rule-based result and merge
\* the text of the deterministic fallback; the local provider is configured
\* without a key.
C13_ConfigurationErrorGivesFallback ==
  /\ (LlmRequested /\ HostedWithoutKey) =>
       /\ resp.kind = "return"
       /\ llm_calls = 0
       /\ settings_lm = Unset
       /\ op = "refine" => resp.value = req.detected_patterns
       /\ op = "merge" => resp.value = FallbackValue(FallbackOfRequest)
  /\ (LlmRequested /\ req.provider = "ollama" /\ ext.construct.kind # "raise") =>
       settings_lm = [kind |-> "lm", provider |-> "ollama", model |-> req.model,
                      api_key |-> ""]

\* a merge request for openrouter without a key was answered with the filled
\* template and no completion was requested
C13_Witness ==
  /\ op = "merge" /\ LlmRequested /\ HostedWithoutKey
  /\ llm_calls = 0
  /\ req.user_prompt.kind = "str" /\ Len(req.user_prompt.s) > 10
  /\ resp.kind = "return" /\ resp.value # req.user_prompt
  /\ Contains(resp.value.s, req.user_prompt.s)

FirstCallFailedOtherwise ==
  ext.call1.kind = "raise" /\ ~ IsA(ext.call1.exc, "AttributeError")

\* the first completion of a refine request was reached and it raised
\* AttributeError or answered without the field refined_json
FirstCallIncompatible ==
  /\ op = "refine"
  /\ ~ ConfigurationFails /\ ext.context.kind # "raise"
  /\ \/ ext.call1.kind = "raise" /\ ext.call1.exc.type = "AttributeError"
     \/ ext.call1.kind = "return" /\ ~ ext.call1.value.has_field

C15_OnlyCacheIsWritten == [][settings_lm' = settings_lm]_vars

\* C16: the template-content cache is an idempotent memoization under
\* concurrency: whatever the remote fetch does for each call, every writer
\* writes the same value for a slug, so an entry, once written, is never
\* changed by a later or repeated write (stated for the slugs of the catalog).
C16_EveryWriterWritesTheSameValue ==
  [][op = "lookup" =>
       \A k \in Keys(TEMPLATE_CACHE) :
         (k.kind = "str" /\ k.s \in Keys(LOCAL_TEMPLATES)) =>
           /\ k \in Keys(TEMPLATE_CACHE')
           /\ Get(TEMPLATE_CACHE', k) = Get(TEMPLATE_CACHE, k)]_vars

----------------------------------------------------------------------------
(* Properties of the results of the matcher and of the refinement          *)
(* (SpecRefine: the request holds the matcher's result for its prompt)     *)

\* every entry of the DetectionResult d has a confidence in (0, 1] (in
\* hundredths) and is stored under the name in its pattern field
EntriesInRange(d) ==
  \A i \in DOMAIN d :
    /\ d[i].value.confidence > 0
    /\ d[i].value.confidence <= 100
    /\ d[i].key = d[i].value.pattern

\* C17: every entry of a DetectionResult returned by detect_patterns or by
\* refine_patterns_with_llm has a confidence in (0, 1], never zero and never
\* above 1, and its key equals its pattern field.
C17_ConfidenceInRange ==
  op = "refine" =>
    /\ EntriesInRange(req.detected_patterns)
    /\ (pc = "returned" /\ resp.kind = "return") => EntriesInRange(resp.value)

\* the completion whose answer the request ended with
FinalCall == IF llm_calls = 2 THEN ext.call2 ELSE ext.call1

\* the refinement ended with an answer that decodes and names at least one
\* pattern of the catalogue
UsableAnswer ==
  /\ op = "refine" /\ pc = "returned"
  /\ llm_calls >= 1
  /\ FinalCall.kind = "return" /\ FinalCall.value.has_field
  /\ Decodes(FinalCall.value.refined_json)
  /\ KnownEntries(FinalCall.value.refined_json) # <<>>

\* the names of a list of entries, in order
NamesOf(entries) == [i \in DOMAIN entries |-> entries[i].name]

\* C18: every pattern name in a result produced from an LLM refinement
\* response is a key of the static pattern catalog; names of the response
\* that are not in the catalog are dropped without error, whatever their
\* data, and the remaining known entries are kept.
C18_UnknownNamesDropped ==
  (op = "refine" /\ pc = "returned") =>
    /\ resp.kind = "return"
    /\ \A i \in DOMAIN resp.value : resp.value[i].key \in PatternNames
    /\ UsableAnswer =>
         [i \in DOMAIN resp.value |-> resp.value[i].key]
           = NamesOf(KnownEntries(FinalCall.value.refined_json))

\* the answer named a pattern that is not in the catalogue, with data that
\* has not the shape of a PatternMatch, next to a known one; the result holds
\* the known one only and is not the rule-based result
C18_Witness ==
  /\ UsableAnswer
  /\ \E i \in DOMAIN FinalCall.value.refined_json.doc.patterns.entries :
       LET e == FinalCall.value.refined_json.doc.patterns.entries[i]
       IN e.name \notin PatternNames /\ ~ WellFormed(e.data)
  /\ resp.kind = "return"
  /\ Len(resp.value) = 1
  /\ resp.value # req.detected_patterns

----------------------------------------------------------------------------
(* Properties of the LLM path and of the fallback of merge (SpecMerge)     *)

\* the request is answered, its template was resolved and its prompt is text
MergedText ==
  /\ op = "merge" /\ pc = "returned"
  /\ ~ LookupRaised
  /\ req.user_prompt.kind = "str"

\* the completion was reached and answered
LlmAnswered ==
  /\ AttemptsLlm(req.provider, req.api_key)
  /\ ~ LlmPathRaised
  /\ ext.call1.kind = "return"

\* the text of the answer once trimmed ("" when there is none)
TrimmedAnswer ==
  IF /\ ext.call1.value.truthy /\ ext.call1.value.has_field
     /\ ext.call1.value.merged_template.kind = "str"
  THEN strip(ext.call1.value.merged_template.s) ELSE ""

\* the answer is text that passes validation: not empty, more than 10
\* characters once trimmed, and it holds the name of a variable of the
\* template
PassesValidation ==
  /\ ext.call1.value.truthy /\ ext.call1.value.has_field
  /\ ext.call1.value.merged_template.kind = "str"
  /\ Len(TrimmedAnswer) > 10
  /\ \E i \in DOMAIN MergedInto.variables :
       Contains(TrimmedAnswer, MergedInto.variables[i])

\* C19: when the merge LLM path is attempted and it raises (a configuration
\* failure included) or its output fails validation, merge returns exactly
\* the text of the deterministic fallback for the same request; when the
\* output passes validation the trimmed LLM output is returned and no
\* fallback substitution is applied.
C19_FailedLlmPathEqualsFallback ==
  (MergedText /\ AttemptsLlm(req.provider, req.api_key)) =>
    IF LlmAnswered /\ PassesValidation
    THEN resp = Return(Str(TrimmedAnswer))
    ELSE resp = Return(FallbackValue(FallbackOfRequest))

\* a completion answered with text that passes validation; it came back
\* trimmed and differs from what the fallback gives
C19_Witness ==
  /\ MergedText /\ LlmAnswered /\ PassesValidation
  /\ llm_calls = 1
  /\ TrimmedAnswer # ext.call1.value.merged_template.s
  /\ resp = Return(Str(TrimmedAnswer))
  /\ resp.value # FallbackValue(FallbackOfRequest)

\* the text put in place of {question}: the first 200 characters and "..."
\* for a prompt of more than 200 characters, the prompt itself otherwise
QuestionText(p) == IF Len(p) > 200 THEN Slice(p, 0, 200) \o "..." ELSE p

\* the {input} and {context} steps applied in that order to the text s left
\* by the {question} step, for template t and prompt p
InputThenContext(s, t, p) ==
  IF Contains(t, "{context}") /\ Len(p) > 50
  THEN Replace(IF Contains(t, "{input}") THEN Replace(s, "{input}", p) ELSE s,
               "{context}", p)
  ELSE IF Contains(t, "{input}") THEN Replace(s, "{input}", p) ELSE s

\* the three steps with {question} replaced for every prompt
StepsForEveryPrompt(t, p) ==
  InputThenContext(
    IF Contains(t, "{question}") THEN Replace(t, "{question}", QuestionText(p))
    ELSE t, t, p)

\* the three steps with {question} replaced for a prompt of more than 10
\* characters only
StepsForLongerPrompts(t, p) ==
  InputThenContext(
    IF Contains(t, "{question}") /\ Len(p) > 10
    THEN Replace(t, "{question}", QuestionText(p))
    ELSE t, t, p)

\* the fallback produced the answer from a text prompt
FallbackOfText == FallbackOnly /\ req.user_prompt.kind = "str"

\* C20 as stated: in the fallback, for every user prompt, each {question} is
\* replaced by the prompt (cut to 200 characters and "..." when longer),
\* then each {input} by the full prompt, then each {context} by the full
\* prompt iff the prompt is longer than 50 characters; the remaining
\* variables are filled afterwards.
C20_QuestionFilledForEveryPrompt ==
  FallbackOfText =>
    resp = AsStr(FillRemaining(
             Return(StepsForEveryPrompt(MergedInto.content, req.user_prompt.s)),
             MergedInto.variables, req.user_prompt))

\* C20: the same three steps in the same order, {question} being replaced
\* only when the prompt is longer than 10 characters.
C20_QuestionFilledForLongerPrompts ==
  FallbackOfText =>
    resp = AsStr(FillRemaining(
             Return(StepsForLongerPrompts(MergedInto.content, req.user_prompt.s)),
             MergedInto.variables, req.user_prompt))

\* a prompt of more than 50 characters that holds {context} itself, merged
\* into a template with {question} and {context}: the {context} brought in
\* by the {question} step was replaced by the later {context} step, and the
\* {context} that step brought in was left to the remaining variables
C20_Witness ==
  /\ FallbackOfText
  /\ Contains(MergedInto.content, "{question}")
  /\ Contains(MergedInto.content, "{context}")
  /\ Contains(req.user_prompt.s, "{context}")
  /\ Len(req.user_prompt.s) > 50
  /\ ~ Contains(resp.value.s, "{question}")
  /\ ~ Contains(resp.value.s, "{context}")
  /\ Contains(resp.value.s,
              Replace(req.user_prompt.s, "{context}",
                      Replace(req.user_prompt.s, "{context}",
                              "[Content for context]")))

\* the text left by the {question}, {input} and {context} steps
AfterThreeSteps ==
  StepsForLongerPrompts(MergedInto.content, req.user_prompt.s)

\* the variables of the template whose placeholder is in text s
UnfilledIn(s) ==
  {i \in DOMAIN MergedInto.variables :
     Contains(s, Placeholder(MergedInto.variables[i]))}

\* what the claim puts in place of the placeholder of variable var
FillText(var, p) ==
  IF lower(var) \in {"instruction", "task", "query"} THEN Slice(p, 0, 100)
  ELSE IF lower(var) \in {"answer", "response", "output"}
       THEN "[Answer will be generated based on the above]"
  ELSE "[Content for " \o var \o "]"

RECURSIVE FilledInTurn(_, _, _)
\* text s with the placeholders of the variables vs replaced one after the
\* other
FilledInTurn(vs, s, p) ==
  IF vs = <<>> THEN s
  ELSE FilledInTurn(Tail(vs), Replace(s, Placeholder(Head(vs)), FillText(Head(vs), p)), p)

\* the first three of the variables still unfilled after the three steps,
\* in the order the variables are visited
FirstThreeUnfilled ==
  Slice(SelectSeq(MergedInto.variables,
                  LAMBDA var : Contains(AfterThreeSteps, Placeholder(var))), 0, 3)

\* the first 100 characters of the prompt hold no placeholder of a variable
\* of the template
PromptBringsNoPlaceholder ==
  \A i \in DOMAIN MergedInto.variables :
    ~ Contains(Slice(req.user_prompt.s, 0, 100), Placeholder(MergedInto.variables[i]))

\* no placeholder of the template is part of the placeholder of another
\* variable
PlaceholdersApart ==
  \A i, j \in DOMAIN MergedInto.variables :
    i # j => ~ Contains(Placeholder(MergedInto.variables[i]),
                        Placeholder(MergedInto.variables[j]))

\* of the k variables still unfilled after the three steps, max(0, k - 3)
\* are literal placeholders of the output
CapLeavesTheRest ==
  Cardinality(UnfilledIn(AfterThreeSteps) \cap UnfilledIn(resp.value.s))
    = Max(0, Cardinality(UnfilledIn(AfterThreeSteps)) - 3)

\* C21 as stated: after the three steps at most 3 still-unfilled variables
\* are filled, and of k still-unfilled variables exactly max(0, k - 3) remain
\* in the output as literal placeholders, for every user prompt.
C21_AllButThreeRemain == FallbackOfText => CapLeavesTheRest

\* C21: the same, for a prompt whose first 100 characters hold no placeholder
\* of the template and a template none of whose placeholders is part of
\* another: the first three still-unfilled variables are filled with the
\* stated texts and exactly max(0, k - 3) remain as literal placeholders.
C21_AllButThreeRemainUnlessBroughtIn ==
  (FallbackOfText /\ PromptBringsNoPlaceholder /\ PlaceholdersApart) =>
    /\ CapLeavesTheRest
    /\ resp.value.s = FilledInTurn(FirstThreeUnfilled, AfterThreeSteps, req.user_prompt.s)

\* four variables were unfilled: three were filled, {task} with the prompt,
\* and one placeholder is left in the output
C21_Witness ==
  /\ FallbackOfText /\ PromptBringsNoPlaceholder
  /\ Cardinality(UnfilledIn(AfterThreeSteps)) = 4
  /\ Cardinality(UnfilledIn(resp.value.s)) = 1
  /\ req.user_prompt.s # ""
  /\ Contains(resp.value.s, "Task: " \o req.user_prompt.s)

\* the body the lookup of the request gave
LookedUpBody == Get(TEMPLATE_CACHE, req.template_slug)

\* the lookup of a text slug, for a text prompt, gave no body or a body
\* without a placeholder
NothingToFill ==
  /\ op = "merge" /\ pc = "returned"
  /\ req.template_slug.kind = "str" /\ req.user_prompt.kind = "str"
  /\ ~ LookupRaised
  /\ findall(LookedUpBody) = <<>>

\* C22: if the template lookup yields a body with no placeholders (or no
\* body), merge returns the user prompt verbatim and performs neither the
\* LLM path nor any substitution: no configuration and no completion.
C22_NothingToFillReturnsUserPrompt ==
  NothingToFill =>
    /\ resp = Return(req.user_prompt)
    /\ llm_calls = 0
    /\ settings_lm = Unset

\* a request that keeps the default local provider and gives no key
DefaultProviderNoKey == req.provider = "ollama" /\ req.api_key = ""

\* the step that answers the merge request
MergeAnswered == op = "merge" /\ pc = "called" /\ pc' = "returned"

\* the step entered the LLM path: it wrote a client to the dspy settings or
\* requested a completion
LlmPathEntered == llm_calls' > 0 \/ settings_lm' # settings_lm

\* C23: merge configures no LLM and makes no LLM call when the provider is
\* the default local one and no key is supplied; the LLM path is entered
\* only for another provider or a non-empty key, only once the template has
\* been resolved, and before any fallback substitution: the completion has
\* been requested whatever the fallback does afterwards.
C23_LlmPathOnlyWhenConfigured ==
  [][MergeAnswered =>
       /\ DefaultProviderNoKey => ~ LlmPathEntered
       /\ LlmPathEntered => (~ DefaultProviderNoKey /\ ~ LookupRaised')
       /\ (/\ ~ DefaultProviderNoKey /\ ~ LookupRaised'
           /\ ext'.construct.kind # "raise" /\ ext'.context.kind # "raise"
           /\ ~ HostedWithoutKey)
          => (llm_calls' = 1 /\ settings_lm' # Unset)
       /\ llm_calls' <= 1]_vars

\* a request with a key whose completion was requested and gave nothing
\* usable, after which a substitution of the fallback raised
C23_Witness ==
  /\ op = "merge" /\ pc = "returned"
  /\ ~ DefaultProviderNoKey /\ ~ LookupRaised
  /\ llm_calls = 1 /\ settings_lm # Unset
  /\ ext.call1.kind = "return"
  /\ req.user_prompt.kind = "none"
  /\ FallbackOfRequest.kind = "raise"
  /\ resp = Return(req.user_prompt)

----------------------------------------------------------------------------
(* Report Generator: AdvancedPromptPatternDetector.analyze_prompt          *)
(* A report is kept as the sequence of the strings that the `report +=`    *)
(* statements append; the str returned is their concatenation. The glyphs  *)
(* of the source that are not ASCII are written by name.                   *)

FolderGlyph == "[folder]"

PinGlyph == "[pin]"

BulletGlyph == "[bullet]"

BarFilled == "#"

BarEmpty == "-"

UpperChar(c) ==
  IF \E u \in DOMAIN UpperToLower : UpperToLower[u] = c
  THEN CHOOSE u \in DOMAIN UpperToLower : UpperToLower[u] = c
  ELSE c

IsCased(c) == c \in DOMAIN UpperToLower \/ UpperChar(c) # c

RECURSIVE upper(_)
\* str.upper() on ASCII text
upper(s) == IF s = "" THEN "" ELSE UpperChar(SubSeq(s, 1, 1)) \o upper(Tail(s))

RECURSIVE TitleFrom(_, _)
\* str.title(): a cased character is upper case after an uncased one and
\* lower case after a cased one
TitleFrom(s, after_cased) ==
  IF s = "" THEN ""
  ELSE (IF after_cased THEN LowerChar(SubSeq(s, 1, 1)) ELSE UpperChar(SubSeq(s, 1, 1)))
         \o TitleFrom(Tail(s), IsCased(SubSeq(s, 1, 1)))

title(s) == TitleFrom(s, FALSE)

\* f"{confidence:.2f}" of a confidence in hundredths
TwoDecimals(confidence) ==
  ToString(confidence \div 100) \o "." \o ToString((confidence % 100) \div 10)
    \o ToString(confidence % 10)

RECURSIVE Repeat(_, _)
\* s * n
Repeat(s, n) == IF n <= 0 THEN "" ELSE s \o Repeat(s, n - 1)

\* _confidence_bar: filled = int(confidence * 10)
_confidence_bar(confidence) ==
  Repeat(BarFilled, confidence \div 10) \o Repeat(BarEmpty, 10 - confidence \div 10)

\* "=" * 60
RuleWidth == 60

Rule == Repeat("=", RuleWidth)

RECURSIVE GroupInto(_, _)
\* the loop that fills by_category: a category is added when it is first
\* met and every item is appended to the list of its category
GroupInto(items, by_category) ==
  IF items = <<>> THEN by_category
  ELSE LET cat == Head(items).value.category
           old == IF cat \in Keys(by_category) THEN Get(by_category, cat) ELSE <<>>
       IN GroupInto(Tail(items), SetItem(by_category, cat, Append(old, Head(items))))

by_category(detected) == GroupInto(detected, <<>>)

RECURSIVE InsertByConfidence(_, _)
\* x goes after every item already placed whose confidence is >= its own
InsertByConfidence(x, sorted) ==
  IF sorted = <<>> THEN <<x>>
  ELSE IF Head(sorted).value.confidence < x.value.confidence
       THEN <<x>> \o sorted
       ELSE <<Head(sorted)>> \o InsertByConfidence(x, Tail(sorted))

RECURSIVE sorted_patterns(_)
\* sorted(items, key=confidence, reverse=True): equal confidences keep their
\* order
sorted_patterns(items) ==
  IF items = <<>> THEN <<>>
  ELSE InsertByConfidence(items[Len(items)],
                          sorted_patterns(SubSeq(items, 1, Len(items) - 1)))

\* match.evidence and match.evidence[0] != "No examples found in prompt"
ShowsEvidence(match) ==
  match.evidence # <<>> /\ match.evidence[1] # "No examples found in prompt"

\* the strings _format_text appends for one pattern
TextEntry(pattern_name, match) ==
  <<PinGlyph \o " " \o Replace(upper(pattern_name), "_", " ") \o "\n",
    "   Confidence: " \o TwoDecimals(match.confidence) \o " | "
       \o _confidence_bar(match.confidence) \o "\n",
    "   Description: " \o match.description \o "\n">>
  \o (IF ShowsEvidence(match)
      THEN <<"   Evidence:\n">>
           \o [i \in DOMAIN match.evidence |->
                 "      " \o BulletGlyph \o " " \o match.evidence[i] \o "\n"]
      ELSE <<>>)
  \o <<"\n">>

RECURSIVE Concat(_)
\* the strings of several groups, one group after the other
Concat(groups) ==
  IF groups = <<>> THEN <<>> ELSE Head(groups) \o Concat(Tail(groups))

\* a display that leaves the Control category out
TextCategoriesWithoutControl ==
  <<"Basic", "Reasoning", "Agent", "Retrieval", "Meta", "Multimodal", "Analysis">>

\* the categories in the order in which _format_text displays them
TextCategories ==
  <<"Basic", "Reasoning", "Agent", "Retrieval", "Control", "Meta", "Multimodal",
    "Analysis">>

\* the strings _format_text appends for one category: nothing when no
\* pattern of the category was detected
TextCategory(category, groups) ==
  IF category \notin Keys(groups) THEN <<>>
  ELSE <<"\n" \o Rule \o "\n",
         FolderGlyph \o " " \o upper(category) \o " PATTERNS\n",
         Rule \o "\n\n">>
       \o Concat([i \in DOMAIN sorted_patterns(Get(groups, category)) |->
                    TextEntry(sorted_patterns(Get(groups, category))[i].key,
                              sorted_patterns(Get(groups, category))[i].value)])

\* the sections of the categories of order, in that order
TextSections(order, detected) ==
  Concat([i \in DOMAIN order |-> TextCategory(order[i], by_category(detected))])

\* _format_text(prompt, patterns)
_format_text(prompt, detected) ==
  IF detected = <<>> THEN <<"No clear prompt patterns detected.">>
  ELSE <<Rule \o "\n",
         "PROMPT PATTERN ANALYSIS\n",
         Rule \o "\n\n",
         "Prompt Length: " \o ToString(Len(prompt)) \o " characters\n",
         "Patterns Detected: " \o ToString(Len(detected)) \o "\n\n">>
       \o TextSections(TextCategories, detected)

\* the strings _format_markdown appends for one pattern
MarkdownEntry(pattern_name, match) ==
  <<"### " \o title(Replace(pattern_name, "_", " ")) \o "\n\n",
    "- **Confidence:** " \o TwoDecimals(match.confidence) \o "\n",
    "- **Description:** " \o match.description \o "\n\n">>
  \o (IF ShowsEvidence(match)
      THEN <<"**Evidence:**\n">>
           \o [i \in DOMAIN match.evidence |-> "- " \o match.evidence[i] \o "\n"]
      ELSE <<>>)
  \o <<"\n">>

\* the strings _format_markdown appends for one item of by_category
MarkdownCategory(group) ==
  <<"\n## " \o group.key \o " Patterns\n\n">>
  \o Concat([i \in DOMAIN group.value |->
               MarkdownEntry(group.value[i].key, group.value[i].value)])

\* _format_markdown(prompt, patterns)
_format_markdown(prompt, detected) ==
  <<"# Prompt Pattern Analysis\n\n",
    "**Prompt Length:** " \o ToString(Len(prompt)) \o " characters\n\n",
    "**Patterns Detected:** " \o ToString(Len(detected)) \o "\n\n">>
  \o Concat([i \in DOMAIN by_category(detected) |->
               MarkdownCategory(by_category(detected)[i])])

\* analyze_prompt(prompt, format_type) for the formats that give a grouped
\* report; the format "json", which is not grouped, is not among the
\* inputs
analyze_prompt(prompt, format_type) ==
  IF format_type = "markdown" THEN _format_markdown(prompt, detect_patterns(prompt))
  ELSE _format_text(prompt, detect_patterns(prompt))

\* the formats asked for: the two grouped ones by name, and a name that is
\* none of the three and gives the plain text
FormatTypes == {"text", "markdown", "html"}

\* a call of analyze_prompt(prompt, format_type)
AnalyzePrompt ==
  /\ op = "analyze"
  /\ pc' = "returned"
  /\ resp' = Return(analyze_prompt(req.prompt, req.format_type))
  /\ UNCHANGED <<op, req, ext, TEMPLATE_CACHE, settings_lm, llm_calls>>

InitAnalyze ==
  /\ op = "analyze"
  /\ pc = "called"
  /\ req \in {[prompt |-> p, format_type |-> f] : p \in Prompts, f \in FormatTypes}
  /\ resp = [kind |-> "none"]
  /\ TEMPLATE_CACHE = <<>>
  /\ ext = [kind |-> "none"]
  /\ settings_lm = Unset
  /\ llm_calls = 0

NextAnalyze == AnalyzePrompt

SpecAnalyze == InitAnalyze /\ [][NextAnalyze]_vars

----------------------------------------------------------------------------
(* Properties of the reports (SpecAnalyze)                                 *)

\* a report has been returned in the plain text format
TextReported ==
  op = "analyze" /\ pc = "returned" /\ req.format_type # "markdown"

\* a report has been returned in the markup format
MarkdownReported ==
  op = "analyze" /\ pc = "returned" /\ req.format_type = "markdown"

\* string s begins with string prefix
Begins(s, prefix) ==
  Len(s) >= Len(prefix) /\ SubSeq(s, 1, Len(prefix)) = prefix

CanonicalCategories ==
  <<"Basic", "Reasoning", "Agent", "Retrieval", "Control", "Meta", "Multimodal",
    "Analysis">>

\* the heading of category number k of the canonical order, in each format
HeadingOf(k) ==
  IF req.format_type = "markdown"
  THEN "\n## " \o CanonicalCategories[k] \o " Patterns\n\n"
  ELSE FolderGlyph \o " " \o upper(CanonicalCategories[k]) \o " PATTERNS\n"

\* the strings of the report that are category headings
IsHeading(s) ==
  IF req.format_type = "markdown" THEN Begins(s, "\n## ")
  ELSE Begins(s, FolderGlyph \o " ")

\* what comes before the confidence in the line that gives it
ConfidenceLabel ==
  IF req.format_type = "markdown" THEN "- **Confidence:** " ELSE "   Confidence: "

IsConfidence(s) == Begins(s, ConfidenceLabel)

\* the confidence, in hundredths, that the line s of the report gives
ConfidenceRead(s) ==
  CHOOSE c \in 0..100 : Begins(s, ConfidenceLabel \o TwoDecimals(c))

\* the headings of the canonical categories, in the canonical order
CanonicalHeadings == [k \in DOMAIN CanonicalCategories |-> HeadingOf(k)]

\* for each string of the report: 0 when it is no heading, the number in
\* the canonical order of the category it is the heading of, 9 for the
\* heading of no canonical category
RanksIn(headings) ==
  [i \in DOMAIN resp.value |->
     IF ~ IsHeading(resp.value[i]) THEN 0
     ELSE IF \E k \in DOMAIN headings : headings[k] = resp.value[i]
          THEN CHOOSE k \in DOMAIN headings : headings[k] = resp.value[i]
          ELSE Len(headings) + 1]

\* every heading of the report is the heading of a category of the
\* canonical order, and the headings follow that order
HeadingsInCanonicalOrder ==
  \E rank \in {RanksIn(CanonicalHeadings)} :
    /\ \A i \in DOMAIN rank : rank[i] <= Len(CanonicalCategories)
    /\ \A i, j \in DOMAIN rank :
         (i < j /\ rank[i] > 0 /\ rank[j] > 0) => rank[i] < rank[j]

\* for each string of the report: the confidence it gives, -1 when it is a
\* heading, -2 otherwise
ReadReport ==
  [i \in DOMAIN resp.value |->
     IF IsHeading(resp.value[i]) THEN -1
     ELSE IF IsConfidence(resp.value[i]) THEN ConfidenceRead(resp.value[i])
     ELSE -2]

\* two entries under the same heading are listed by confidence descending
EntriesByConfidence ==
  \E read \in {ReadReport} :
    \A i, j \in DOMAIN read :
      (/\ i < j /\ read[i] >= 0 /\ read[j] >= 0
       /\ \A m \in i..j : read[m] # -1)
        => read[i] >= read[j]

\* C24: in every grouped report format (plain text and markup) the
\* categories appear in the canonical order Basic, Reasoning, Agent,
\* Retrieval, Control, Meta, Multimodal, Analysis, and within each category
\* the entries are listed by confidence descending.
C24_GroupedReportsOrdered ==
  (TextReported \/ MarkdownReported) =>
    (HeadingsInCanonicalOrder /\ EntriesByConfidence)

\* the part of C24 about the plain text format
TextReportOrdered ==
  TextReported => (HeadingsInCanonicalOrder /\ EntriesByConfidence)

\* the strings of the report that name a pattern
IsTextEntry(s) == Begins(s, PinGlyph \o " ")

\* the string that names pattern_name in the plain text report
TextEntryOf(pattern_name) ==
  PinGlyph \o " " \o Replace(upper(pattern_name), "_", " ") \o "\n"

\* how many strings of the report satisfy Is
HowMany(Is(_)) == Cardinality({i \in DOMAIN resp.value : Is(resp.value[i])})

\* C29: for every non-empty result of detect_patterns the plain text report
\* lists each detected pattern exactly once: no pattern is dropped by the
\* grouping, and the number of entries is the 'Patterns Detected' count.
C29_EveryPatternListedOnce ==
  TextReported =>
    \E detected \in {detect_patterns(req.prompt)} :
      detected # <<>> =>
        /\ \A i \in DOMAIN detected :
             Cardinality({j \in DOMAIN resp.value :
                resp.value[j] = TextEntryOf(detected[i].key)}) = 1
        /\ HowMany(IsTextEntry) = Len(detected)
        /\ "Patterns Detected: " \o ToString(Len(detected)) \o "\n\n"
             \in Range(resp.value)

\* a plain text report of four patterns in three categories, two of them in
\* one category
C29_Witness ==
  /\ TextReported
  /\ HowMany(IsTextEntry) = 4
  /\ HowMany(IsHeading) = 3
  /\ TextEntryOf("task_decomposition") \in Range(resp.value)

----------------------------------------------------------------------------
(* Properties of the refinement parser and of detection                    *)

\* the refinement ended with an answer whose text is a well-formed document
\* between a leading marker, with or without the language tag, and a
\* trailing marker
FencedAnswer ==
  /\ op = "refine" /\ pc = "returned"
  /\ llm_calls >= 1
  /\ FinalCall.kind = "return" /\ FinalCall.value.has_field
  /\ FinalCall.value.refined_json.kind = "str"
  /\ FinalCall.value.refined_json.lead \in {"fence_json", "fence_plain"}
  /\ FinalCall.value.refined_json.trail = "fence"
  /\ FinalCall.value.refined_json.doc.kind = "object"

\* what the refinement gives for the same document without the markers
BareAnswerResult ==
  Handled(_parse_llm_refinement_response(
            Text("none", FinalCall.value.refined_json.doc, "none"),
            req.detected_patterns),
          req.detected_patterns)

\* C25: a refinement response whose well-formed content is wrapped in
\* code-fence markers (a leading fence with or without a language tag, and a
\* trailing fence) has the markers stripped before decoding: the result is
\* the one the same content without fences gives.
C25_FencedDecodedAsBare == FencedAnswer => resp = BareAnswerResult

\* the part of C25 that is about the leading fence with the json tag
JsonFencedDecodedAsBare ==
  (FencedAnswer /\ FinalCall.value.refined_json.lead = "fence_json")
    => resp = BareAnswerResult

\* C26: for every prompt the result of detect_patterns contains exactly one
\* of zero_shot and few_shot (never both, never neither); so the result is
\* never empty and its total confidence is at least 0.35.
C26_ExactlyOneOfZeroShotAndFewShot ==
  (op = "detect" /\ pc = "returned") =>
    /\ ("zero_shot" \in Keys(resp.value)) # ("few_shot" \in Keys(resp.value))
    /\ resp.value # <<>>
    /\ SumConfidence(resp.value) >= 35

\* the part of C26 that is about neither and about the total
AtLeastOneOfZeroShotAndFewShot ==
  (op = "detect" /\ pc = "returned") =>
    /\ "zero_shot" \in Keys(resp.value) \/ "few_shot" \in Keys(resp.value)
    /\ resp.value # <<>>
    /\ SumConfidence(resp.value) >= 35

----------------------------------------------------------------------------
(* Suggestions for an analysed prompt: the patterns the /analyze route     *)
(* returns for a prompt are posted to the /templates/suggest route         *)

\* the /analyze route without the refiner: detect_patterns(prompt)
AnalyzeRoute ==
  /\ op = "analyze_suggest"
  /\ pc = "called"
  /\ pc' = "analyzed"
  /\ ext' = [kind |-> "analyzed", patterns |-> detect_patterns(req.prompt)]
  /\ UNCHANGED <<op, req, resp, TEMPLATE_CACHE, settings_lm, llm_calls>>

\* the /templates/suggest route for the patterns of the analysis
SuggestTemplates ==
  /\ op = "analyze_suggest"
  /\ pc = "analyzed"
  /\ pc' = "returned"
  /\ \E order \in IterationOrders(suggested_slugs(ext.patterns)) :
       resp' = get_suggestions(ext.patterns, order)
  /\ UNCHANGED <<op, req, ext, TEMPLATE_CACHE, settings_lm, llm_calls>>

InitAnalyzeSuggest ==
  /\ op = "analyze_suggest"
  /\ pc = "called"
  /\ req \in {[prompt |-> p] : p \in Prompts}
  /\ resp = [kind |-> "none"]
  /\ TEMPLATE_CACHE = <<>>
  /\ ext = [kind |-> "none"]
  /\ settings_lm = Unset
  /\ llm_calls = 0

NextAnalyzeSuggest == AnalyzeRoute \/ SuggestTemplates

SpecAnalyzeSuggest == InitAnalyzeSuggest /\ [][NextAnalyzeSuggest]_vars

----------------------------------------------------------------------------
(* Properties of the suggestions for an analysed prompt                    *)
(* (SpecAnalyzeSuggest)                                                    *)

\* C27: when get_suggestions is applied to the output of detect_patterns,
\* every suggestion's score is strictly greater than 0 and strictly less
\* than 100 (scores are in hundredths): zero_shot or few_shot is in the
\* total and neither has an affinity entry.
C27_ScoresStrictlyBetween ==
  (op = "analyze_suggest" /\ pc = "returned") =>
    /\ resp.kind = "return"
    /\ \A i \in DOMAIN resp.value :
         resp.value[i].score > 0 /\ resp.value[i].score < 10000
    /\ \E k \in {"zero_shot", "few_shot"} :
         k \in Keys(ext.patterns) /\ ~ Mapped(k)

\* suggestions were made for a prompt in which role_prompting was detected
\* at the clamp, next to the sentinel
C27_Witness ==
  /\ op = "analyze_suggest" /\ pc = "returned"
  /\ Keys(ext.patterns) = {"zero_shot", "role_prompting"}
  /\ Get(ext.patterns, "role_prompting").confidence = 100
  /\ resp.value # <<>>
  /\ \A i \in DOMAIN resp.value : resp.value[i].score = 5882

----------------------------------------------------------------------------
(* Lookups one after the other: one caller calls get_template_content      *)
(* again and again, for any slug, while LangSmith changes between calls    *)

\* the slugs looked up one after the other: a key of the local repository,
\* a part of a local slug, an unknown one, None
SequentialSlugs ==
  {Str("rlm/rag-prompt"), Str("rag"), Str("nonexistent/template"), NoneValue}

\* the value the first returning call gave for each slug so far (a record of
\* the calls made, kept beside the program's state)
FirstReturned(first, template_slug, result) ==
  IF result.kind = "return" /\ template_slug \notin Keys(first)
  THEN SetItem(first, template_slug, result.value)
  ELSE first

\* one whole call of get_template_content (lines 174-234), LangSmith being
\* in any condition during it
GetTemplateContent ==
  /\ op = "lookups"
  /\ pc = "called"
  /\ pc' = "returned"
  /\ \E ls \in LangSmithOutcomes :
       \E r \in {get_template_content(req, TEMPLATE_CACHE, ls)} :
          /\ resp' = r.result
          /\ TEMPLATE_CACHE' = r.cache
          /\ ext' = [kind |-> "lookups", langsmith |-> ls,
                     first |-> FirstReturned(ext.first, req, r.result)]
  /\ UNCHANGED <<op, req, settings_lm, llm_calls>>

\* the caller calls again, for any slug
NextLookupCall ==
  /\ op = "lookups"
  /\ pc = "returned"
  /\ pc' = "called"
  /\ req' \in SequentialSlugs
  /\ resp' = [kind |-> "none"]
  /\ UNCHANGED <<op, ext, TEMPLATE_CACHE, settings_lm, llm_calls>>

InitLookups ==
  /\ op = "lookups"
  /\ pc = "called"
  /\ req \in SequentialSlugs
  /\ resp = [kind |-> "none"]
  /\ ext = [kind |-> "lookups", langsmith |-> NotConsulted, first |-> <<>>]
  /\ TEMPLATE_CACHE = <<>>
  /\ settings_lm = Unset
  /\ llm_calls = 0

NextLookups == GetTemplateContent \/ NextLookupCall

SpecLookups == InitLookups /\ [][NextLookups]_vars

----------------------------------------------------------------------------
(* Properties of lookups made one after the other (SpecLookups)            *)

\* a call of get_template_content answers in this step
LookupAnswered == op = "lookups" /\ pc = "called" /\ pc' = "returned"

\* every entry of the cache is in the cache after the step, with its value
EntriesKept ==
  \A k \in Keys(TEMPLATE_CACHE) :
     k \in Keys(TEMPLATE_CACHE') /\ Get(TEMPLATE_CACHE', k) = Get(TEMPLATE_CACHE, k)

\* C28: when the calls of get_template_content are made one after the
\* other, a call that returns v for a slug leaves the cache holding v for
\* that slug, no entry of the cache is ever overwritten or removed, and a
\* call for a slug returns what the first returning call for that slug
\* returned, whatever LangSmith does during it.
C28_FirstValueStays ==
  [][ /\ (op = "lookups") => EntriesKept
      /\ (LookupAnswered /\ resp'.kind = "return") =>
           /\ req \in Keys(TEMPLATE_CACHE')
           /\ Get(TEMPLATE_CACHE', req) = resp'.value
           /\ Get(ext'.first, req) = resp'.value
      /\ (LookupAnswered /\ req \in Keys(ext.first)) =>
           resp' = Return(Get(ext.first, req)) ]_vars

\* a later call returned the local content the first call had returned,
\* although LangSmith held another text for the slug during the later call
C28_Witness ==
  /\ op = "lookups" /\ pc = "returned"
  /\ req = Str("rlm/rag-prompt")
  /\ resp = Return(Get(LOCAL_TEMPLATES, "rlm/rag-prompt"))
  /\ ext.langsmith = LangSmith(TRUE, TRUE, Return("Be brief."))
  /\ Get(TEMPLATE_CACHE, req) = resp.value

====
